---------------------------- MODULE Spec2Model ----------------------------
(***************************************************************************)
(* A model of silly-wat-linker: the S-expression parser, the Node/Item     *)
(* tree with its serialization, the Linker with its dedup ledger, the      *)
(* feature passes, and the pretty-printer with its own tokenizer.          *)
(*                                                                         *)
(* Text is a sequence of one-character strings, so that parsing and        *)
(* serialization are computed character by character as the code does.     *)
(***************************************************************************)
EXTENDS Integers, Sequences, FiniteSets, TLC

VARIABLES
    input,          \* parser.rs: Parser.input of the text under test
    parsed,         \* result of Parser::parse on input
    s1,             \* format!("{}", node) of the parsed node
    reparsed,       \* result of Parser::parse on s1
    pphase,         \* position of the parse / serialize / reparse script
    loader,         \* linker.rs: Linker.loader (MockLoader or FileSystemLoader)
    loaded_modules, \* linker.rs: Linker.loaded_modules (the dedup ledger)
    features,       \* linker.rs: Linker.features
    module,         \* the `module` local of Linker::link_module
    fidx,           \* number of features link_module has invoked so far
    lphase,         \* position of the linker: idle, linking, done, failed, hung
    error,          \* the Err value the last link_file returned, "" if none
    invoked,        \* history: the features the current link invoked, in order
    raw_loads,      \* history: the paths handed to loader.load_raw, in order
    last_load,      \* history: the last direct Linker::load_module call
    links,          \* history: number of link_file calls so far
    calls,          \* history: number of direct load_module calls so far
    src_text,       \* the module text a pass test parses
    tree,           \* the module a pass test works on
    prev_tree,      \* history: the module before the last pass
    applied,        \* history: the passes applied to tree, in order
    pass_result,    \* the Result of the last pass: "Ok" or the error
    sort_impl,      \* which small-slice insertion sort the build's slice::sort_by runs
    raw_data,       \* data_import.rs: the bytes `raw_data` of a raw file
    literal,        \* the text between the quotes of a string literal
    measured,       \* the Result of interpreted_string_length on literal
    uphase,         \* position of the encode / measure script
    code,           \* pretty.rs: the text handed to pretty_print
    pretty_module,  \* main.rs formatter: the Result of pretty_print on code
    pretty_again,   \* the Result of pretty_print on the text the formatter wrote
    fphase,         \* position of the formatter: off, source, formatted, twice
    overflow_checks \* whether the build panics on integer overflow (debug profile)

vars == <<input, parsed, s1, reparsed, pphase, loader, loaded_modules,
          features, module, fidx, lphase, error, invoked, raw_loads,
          last_load, links, calls, src_text, tree, prev_tree, applied,
          pass_result, sort_impl, raw_data, literal, measured, uphase>>

parseVars == <<input, parsed, s1, reparsed, pphase>>
linkVars == <<loader, loaded_modules, features, module, fidx, lphase, error,
              invoked, raw_loads, last_load, links, calls>>
passVars == <<src_text, tree, prev_tree, applied, pass_result>>
utilVars == <<raw_data, literal, measured, uphase>>
prettyVars == <<code, pretty_module, pretty_again, fphase, overflow_checks>>

-----------------------------------------------------------------------------
(* Text helpers *)

\* A string literal as the sequence of its characters.
Chars(s) == [i \in 1..Len(s) |-> SubSeq(s, i, i)]

\* char::is_whitespace, restricted to the ASCII characters the model uses.
WhitespaceChars == {" ", "\n", "\t"}

\* char::is_alphanumeric, restricted to the ASCII characters the model uses.
AlphanumericChars ==
    {"a", "b", "c", "d", "e", "f", "g", "h", "i", "j", "k", "l", "m", "n",
     "o", "p", "q", "r", "s", "t", "u", "v", "w", "x", "y", "z",
     "0", "1", "2", "3", "4", "5", "6", "7", "8", "9"}

\* char::is_ascii_digit
DigitChars == {"0", "1", "2", "3", "4", "5", "6", "7", "8", "9"}

ADDITIONAL_ALLOWED_CHARS == {".", "_", "-"}

\* str::starts_with on character sequences.
StartsWith(s, prefix) ==
    /\ Len(prefix) <= Len(s)
    /\ SubSeq(s, 1, Len(prefix)) = prefix

\* A `let`: the value v, computed once, handed to the body B.
Let(v, B(_)) == B(v)

RECURSIVE Join(_, _)
\* Vec<String>::join(sep)
Join(strs, sep) ==
    IF Len(strs) = 0 THEN <<>>
    ELSE IF Len(strs) = 1 THEN strs[1]
    ELSE strs[1] \o sep \o Join(Tail(strs), sep)

-----------------------------------------------------------------------------
(* ast.rs: Node and Item *)

Nothing == [kind |-> "Nothing"]
Attribute(text) == [kind |-> "Attribute", attr |-> text]
NodeItem(node) == [kind |-> "Node", node |-> node]
Node(name, depth, items) == [name |-> name, depth |-> depth, items |-> items]

is_nothing(item) == item.kind = "Nothing"
is_node(item) == item.kind = "Node"
is_attribute(item) == item.kind = "Attribute"

\* Node::immediate_node_iter: the direct children that are nodes, in order.
immediate_node_iter(node) ==
    LET nodes == SelectSeq(node.items, is_node)
    IN  [i \in 1..Len(nodes) |-> nodes[i].node]

\* Node::immediate_attribute_iter: the direct attributes, in order.
immediate_attribute_iter(node) ==
    LET attrs == SelectSeq(node.items, is_attribute)
    IN  [i \in 1..Len(attrs) |-> attrs[i].attr]

RECURSIVE node_iter(_)
RECURSIVE node_iter_children(_)
\* Node::node_iter: pre-order, self first, then each child subtree.
node_iter(node) == <<node>> \o node_iter_children(immediate_node_iter(node))
node_iter_children(nodes) ==
    IF Len(nodes) = 0 THEN <<>>
    ELSE node_iter(nodes[1]) \o node_iter_children(Tail(nodes))

RECURSIVE add_depth(_, _)
\* The closure of Node::append_node applied by node_iter_mut to every node
\* of the subtree: node.depth += self.depth.
add_depth(node, by) ==
    [name |-> node.name,
     depth |-> node.depth + by,
     items |-> [i \in 1..Len(node.items) |->
                  IF is_node(node.items[i])
                  THEN NodeItem(add_depth(node.items[i].node, by))
                  ELSE node.items[i]]]

\* Node::append_node
append_node(self, node) ==
    [self EXCEPT !.items = Append(self.items, NodeItem(add_depth(node, self.depth)))]

RECURSIVE debug_escape(_)
\* The characters of a string as `{:?}` writes them.
debug_escape(str) ==
    IF Len(str) = 0 THEN <<>>
    ELSE (IF str[1] \in {"\"", "\\"} THEN <<"\\", str[1]>> ELSE <<str[1]>>)
         \o debug_escape(Tail(str))

display_attribute_debug(str) == <<"\"">> \o debug_escape(str) \o <<"\"">>

\* impl Display for Item, Item::Attribute(str) => write!(f, "{}", str)
display_attribute(str) == str

RECURSIVE Display(_)
RECURSIVE DisplayItem(_)
\* impl Display for Item
DisplayItem(item) ==
    IF is_attribute(item) THEN display_attribute(item.attr)
    ELSE IF is_node(item) THEN Display(item.node)
    ELSE <<>>

\* impl Display for Node
Display(node) ==
    <<"(">> \o node.name
      \o (IF Len(node.items) > 0 THEN <<" ">> ELSE <<>>)
      \o Join([i \in 1..Len(SelectSeq(node.items, LAMBDA item : ~is_nothing(item))) |->
                  DisplayItem(SelectSeq(node.items, LAMBDA item : ~is_nothing(item))[i])],
              <<" ">>)
      \o <<")">>

-----------------------------------------------------------------------------
(* parser.rs: Parser.  Positions are 1-based: position p of the model is    *)
(* self.pos = p - 1 of the code, and the end of input is p > Len(text).     *)
(* A parser result is [tag |-> "Ok", ...], [tag |-> "Err", err |-> e] or    *)
(* [tag |-> "Hang"] when the code loops without end.                        *)

Err(e) == [tag |-> "Err", err |-> e]
Hang == [tag |-> "Hang"]

\* Parser::peek
peek_is(text, pos, c) == pos <= Len(text) /\ text[pos] = c
is_eof(text, pos) == pos > Len(text)

\* Parser::is_next
is_next(text, pos, expected) ==
    /\ pos + Len(expected) - 1 <= Len(text)
    /\ SubSeq(text, pos, pos + Len(expected) - 1) = expected

RECURSIVE eat_line(_, _)
\* Parser::eat_line: consumes up to and including the next newline; at the
\* end of input must_next fails and the caller drops the error.
eat_line(text, pos) ==
    IF is_eof(text, pos) THEN pos
    ELSE IF text[pos] = "\n" THEN pos + 1
    ELSE eat_line(text, pos + 1)

RECURSIVE eat_comment_body(_, _)
\* The loop of Parser::eat_comment after the opening "(;": it advances until
\* ";)" is next, and never ends when no ";)" follows.
eat_comment_body(text, pos) ==
    IF is_next(text, pos, <<";", ")">>) THEN [tag |-> "Ok", pos |-> pos + 2]
    ELSE IF is_eof(text, pos) THEN Hang
    ELSE eat_comment_body(text, pos + 1)

\* Parser::eat_comment
eat_comment(text, pos) == eat_comment_body(text, pos + 2)

RECURSIVE eat_whitespace(_, _)
\* Parser::eat_whitespace: skips whitespace, line comments and block comments.
eat_whitespace(text, pos) ==
    IF is_eof(text, pos) THEN [tag |-> "Ok", pos |-> pos]
    ELSE IF is_next(text, pos, <<";", ";">>)
         THEN eat_whitespace(text, eat_line(text, pos + 2))
    ELSE IF is_next(text, pos, <<"(", ";">>)
         THEN Let(eat_comment(text, pos), LAMBDA c :
              IF c.tag = "Hang" THEN Hang ELSE eat_whitespace(text, c.pos))
    ELSE IF text[pos] \in WhitespaceChars THEN eat_whitespace(text, pos + 1)
    ELSE [tag |-> "Ok", pos |-> pos]

RECURSIVE parse_identifier_end(_, _)
\* The loop of Parser::parse_identifier: the position after the identifier,
\* or 0 when must_peek fails with UnexpectedEOF.
parse_identifier_end(text, pos) ==
    IF is_eof(text, pos) THEN 0
    ELSE IF text[pos] \in AlphanumericChars \cup ADDITIONAL_ALLOWED_CHARS
         THEN parse_identifier_end(text, pos + 1)
    ELSE pos

RECURSIVE eat_string_body(_, _)
\* The loop of Parser::eat_string after the opening quote: the position after
\* the closing quote, or 0 when must_peek fails with UnexpectedEOF.  A
\* backslash advances the position by one extra character.
eat_string_body(text, pos) ==
    IF is_eof(text, pos) THEN 0
    ELSE IF text[pos] = "\"" THEN pos + 1
    ELSE IF text[pos] = "\\" THEN eat_string_body(text, pos + 2)
    ELSE eat_string_body(text, pos + 1)

\* Parser::eat_string
eat_string(text, pos) == eat_string_body(text, pos + 1)

RECURSIVE attribute_end(_, _)
\* The loop of Parser::parse_item over a bare token: the position after the
\* attribute, or 0 when must_peek fails with UnexpectedEOF.  The token ends
\* after a string, or before whitespace or ")".
attribute_end(text, pos) ==
    IF is_eof(text, pos) THEN 0
    ELSE IF text[pos] = "\"" THEN eat_string(text, pos)
    ELSE IF text[pos] \in WhitespaceChars \/ text[pos] = ")" THEN pos
    ELSE attribute_end(text, pos + 1)

RECURSIVE parse_node(_, _, _)
RECURSIVE parse_item(_, _, _)
RECURSIVE parse_items(_, _, _, _)

\* Parser::parse_item, with self.depth = depth
parse_item(text, pos, depth) ==
    IF is_eof(text, pos) THEN Err("UnexpectedEOF")
    ELSE IF text[pos] = "("
    THEN Let(parse_node(text, pos, depth), LAMBDA n :
         IF n.tag = "Ok"
         THEN [tag |-> "Ok", item |-> NodeItem(n.node), pos |-> n.pos]
         ELSE n)
    ELSE Let(attribute_end(text, pos), LAMBDA end :
         IF end = 0 THEN Err("UnexpectedEOF")
         ELSE Let(eat_whitespace(text, end), LAMBDA w :
              IF w.tag = "Hang" THEN Hang
              ELSE [tag |-> "Ok",
                    item |-> Attribute(SubSeq(text, pos, end - 1)),
                    pos |-> w.pos]))

\* The `while self.must_peek()? != ')'` loop of Parser::parse_node.
parse_items(text, pos, depth, items) ==
    IF is_eof(text, pos) THEN Err("UnexpectedEOF")
    ELSE IF text[pos] = ")" THEN [tag |-> "Ok", items |-> items, pos |-> pos]
    ELSE Let(parse_item(text, pos, depth), LAMBDA i :
         IF i.tag # "Ok" THEN i
         ELSE Let(eat_whitespace(text, i.pos), LAMBDA w :
              IF w.tag = "Hang" THEN Hang
              ELSE parse_items(text, w.pos, depth, Append(items, i.item))))

\* Parser::parse_node, entered with self.depth = depth: the node gets the
\* depth the counter has after the closing parenthesis, its children are
\* parsed with the counter one higher.
parse_node(text, pos, depth) ==
    Let(eat_whitespace(text, pos), LAMBDA w1 :
    IF w1.tag = "Hang" THEN Hang
    ELSE IF ~is_next(text, w1.pos, <<"(">>) THEN Err("UnexpectedToken")
    ELSE Let(eat_whitespace(text, w1.pos + 1), LAMBDA w2 :
    IF w2.tag = "Hang" THEN Hang
    ELSE Let(parse_identifier_end(text, w2.pos), LAMBDA idEnd :
    IF idEnd = 0 THEN Err("UnexpectedEOF")
    ELSE Let(eat_whitespace(text, idEnd), LAMBDA w3 :
    IF w3.tag = "Hang" THEN Hang
    ELSE Let(parse_items(text, w3.pos, depth + 1, <<>>), LAMBDA its :
    IF its.tag # "Ok" THEN its
    ELSE Let(eat_whitespace(text, its.pos + 1), LAMBDA w4 :
    IF w4.tag = "Hang" THEN Hang
    ELSE [tag |-> "Ok",
          node |-> Node(SubSeq(text, w2.pos, idEnd - 1), depth, its.items),
          pos |-> w4.pos]))))))

\* Parser::parse
parse(text) ==
    Let(parse_node(text, 1, 0), LAMBDA n :
    IF n.tag # "Ok" THEN n
    ELSE Let(eat_whitespace(text, n.pos), LAMBDA w :
    IF w.tag = "Hang" THEN Hang
    ELSE IF w.pos <= Len(text) THEN Err("StrayData")
    ELSE [tag |-> "Ok", node |-> n.node]))

-----------------------------------------------------------------------------
(* utils.rs *)

\* The node names and the placeholder text the code compares with and builds.
NAME_MODULE == Chars("module")
NAME_IMPORT == Chars("import")
NAME_FILE == Chars("file")
NAME_START == Chars("start")
NAME_FUNC == Chars("func")
NAME_CALL == Chars("call")
EMPTY_MODULE == Chars("(module)")
NAME_RAW == Chars("raw")
NAME_DATA == Chars("data")
NAME_MEMORY == Chars("memory")
NAME_OFFSET == Chars("offset")
NAME_I32_CONST == Chars("i32.const")

is_module_at_any_depth(a) == a.name = NAME_MODULE

\* utils::is_module
is_module(a) == a.depth = 0 /\ a.name = NAME_MODULE

\* A character outside ASCII, U+00E9, held as one element of a text.
E_ACUTE == "U+00E9"

\* char::len_utf8 for the characters of the model's texts
len_utf8(c) == IF c = E_ACUTE THEN 2 ELSE 1

RECURSIVE byte_len(_)
\* str::len: the length in bytes
byte_len(s) == IF Len(s) = 0 THEN 0 ELSE len_utf8(s[1]) + byte_len(Tail(s))

\* utils::is_string_literal looks for the last character with
\* s.chars().nth(s.len() - 1).unwrap(), a byte length used as a character
\* index: on a text of more than two bytes that starts with a quote and holds
\* a character outside ASCII, nth returns None and unwrap panics.
is_string_literal_panics(str) ==
    /\ byte_len(str) > 2
    /\ str[1] = "\""
    /\ byte_len(str) > Len(str)

\* utils::is_string_literal where it returns (see is_string_literal_panics):
\* there the text is ASCII, or does not start with a quote.
is_string_literal(str) ==
    IF byte_len(str) <= 2 THEN FALSE
    ELSE str[1] = "\"" /\ str[Len(str)] = "\""

\* The decimal digits of usize::MAX on a 64-bit target.
USIZE_MAX_DIGITS == Chars("18446744073709551615")

DigitValue(c) == CHOOSE v \in 0..9 : Chars("0123456789")[v + 1] = c

RECURSIVE strip_leading_zeros(_)
strip_leading_zeros(digits) ==
    IF Len(digits) > 1 /\ digits[1] = "0" THEN strip_leading_zeros(Tail(digits))
    ELSE digits

\* Whether the decimal numeral a is at most the numeral b of the same length.
RECURSIVE numeral_le(_, _)
numeral_le(a, b) ==
    IF Len(a) = 0 THEN TRUE
    ELSE IF DigitValue(a[1]) < DigitValue(b[1]) THEN TRUE
    ELSE IF DigitValue(a[1]) > DigitValue(b[1]) THEN FALSE
    ELSE numeral_le(Tail(a), Tail(b))

\* attr.parse::<usize>().is_ok(): an optional "+", then one or more decimal
\* digits whose value fits 64 bits.
parses_as_usize(attr) ==
    LET digits == IF Len(attr) > 0 /\ attr[1] = "+" THEN Tail(attr) ELSE attr
        sig == strip_leading_zeros(digits)
    IN  /\ Len(digits) > 0
        /\ \A i \in 1..Len(digits) : digits[i] \in DigitChars
        /\ \/ Len(sig) < Len(USIZE_MAX_DIGITS)
           \/ Len(sig) = Len(USIZE_MAX_DIGITS) /\ numeral_le(sig, USIZE_MAX_DIGITS)

\* Iterator::find, from the elements that pass its test: the first of them, as
\* a sequence of length 0 (None) or 1 (Some).
first_of(hits) == IF Len(hits) = 0 THEN <<>> ELSE <<hits[1]>>

\* The first of a set of positions (Iterator::find and position).
first_position(S) == CHOOSE i \in S : \A j \in S : i <= j

\* |attr| attr.starts_with("$")
is_named_id(attr) == Len(attr) > 0 /\ attr[1] = "$"

find_id_attribute_numeric_first(node) ==
    IF Len(SelectSeq(immediate_attribute_iter(node), parses_as_usize)) > 0
    THEN first_of(SelectSeq(immediate_attribute_iter(node), parses_as_usize))
    ELSE first_of(SelectSeq(immediate_attribute_iter(node), is_named_id))

\* utils::find_id_attribute: the first attribute starting with "$", else the
\* first attribute that parses as usize; a sequence of length 0 for None.
find_id_attribute(node) ==
    IF Len(SelectSeq(immediate_attribute_iter(node), is_named_id)) > 0
    THEN first_of(SelectSeq(immediate_attribute_iter(node), is_named_id))
    ELSE first_of(SelectSeq(immediate_attribute_iter(node), parses_as_usize))

\* interpreted_string_length from character i (1-based) of s on, with count
\* units counted so far: every character counts one; after a backslash the
\* next character is consumed, and one more when that one is an ASCII digit.
RECURSIVE interpreted_string_length_from(_, _, _)
interpreted_string_length_from(s, i, count) ==
    IF i > Len(s) THEN [tag |-> "Ok", count |-> count]
    ELSE IF s[i] # "\\" THEN interpreted_string_length_from(s, i + 1, count + 1)
    ELSE IF i + 1 > Len(s) THEN Err("InvalidEscapeSequence")
    ELSE IF s[i + 1] \in DigitChars
         THEN IF i + 2 > Len(s) THEN Err("InvalidEscapeSequence")
              ELSE interpreted_string_length_from(s, i + 3, count + 1)
    ELSE interpreted_string_length_from(s, i + 2, count + 1)

\* utils::interpreted_string_length
interpreted_string_length(s) == interpreted_string_length_from(s, 1, 0)

-----------------------------------------------------------------------------
(* The files of the linker runs: the fixtures of the import and start_merge *)
(* tests and variations of them.                                            *)

\* The loader map of a run: file "0" is the entry file.
Files(entry, second, third) ==
    [path \in {<<"0">>, <<"1">>, <<"2">>} |->
        IF path = <<"0">> THEN Chars(entry)
        ELSE IF path = <<"1">> THEN Chars(second) ELSE Chars(third)]

FileMaps ==
    {\* import.rs, test dedupe_imports
     Files("(module (import \"1\" (file)) (import \"1\" (file)) (func $a) (func $b))",
           "(module (func $c) (func $d))",
           "(module (func $e))"),
     \* import.rs, test cascade_imports
     Files("(module (import \"1\" (file)) (func $a) (func $b))",
           "(module (import \"2\" (file)) (func $c) (func $d))",
           "(module (func $e))"),
     \* an import of an empty file, and nothing else
     Files("(module (import \"1\" (file)))",
           "(module)",
           "(module (func $e))"),
     \* a file that imports itself
     Files("(module (import \"0\" (file)) (func $a))",
           "(module (func $c) (func $d))",
           "(module (func $e))"),
     \* an import cycle 0 -> 1 -> 0
     Files("(module (import \"1\" (file)) (func $a) (func $b))",
           "(module (import \"0\" (file)) (func $c))",
           "(module (func $e))"),
     \* an import cycle 1 -> 2 -> 1 behind the entry file
     Files("(module (import \"1\" (file)) (func $a) (func $b))",
           "(module (import \"2\" (file)) (func $c) (func $d))",
           "(module (import \"1\" (file)) (func $e))"),
     \* an import whose path is no string literal
     Files("(module (func $a) (import x (file)))",
           "(module (func $c) (func $d))",
           "(module (func $e))"),
     \* an import of a file that does not exist
     Files("(module (import \"9\" (file)) (func $a))",
           "(module (func $c) (func $d))",
           "(module (func $e))"),
     \* file 2 imported directly and through file 1
     Files("(module (import \"1\" (file)) (func $a) (import \"2\" (file)))",
           "(module (import \"2\" (file)) (func $c) (func $d))",
           "(module (func $e))"),
     \* two imports, the first of a file that imports a fourth file
     Files("(module (import \"1\" (file)) (import \"2\" (file)) (func $a))",
           "(module (import \"3\" (file)) (func $c))",
           "(module (func $d))")
         @@ (<<"3">> :> Chars("(module (func $e))")),
     \* start_merge.rs, test simple_merge
     Files("(module (func $t1) (start $t1) (func $t2) (start $t2))",
           "(module (func $c (import \"m\" \"f\")) (start $c))",
           "(module (func $e))"),
     \* start directives and a nested import brought in by an import
     Files("(module (import \"1\" (file)) (func $a) (start $a))",
           "(module (func $c (import \"m\" \"f\")) (start $c))",
           "(module (func $e))"),
     \* a start directive without an id
     Files("(module (start) (start $a) (import \"1\" (file)))",
           "(module (func $c (import \"m\" \"f\")) (start $c))",
           "(module (func $e))"),
     \* an entry file whose root is no module
     Files("(func $a)",
           "(module (func $c) (func $d))",
           "(module (func $e))"),
     \* an entry file the parser rejects
     Files("(module",
           "(module (func $c) (func $d))",
           "(module (func $e))")}

\* Every text a load of the runs can hand to the parser.
FileTexts ==
    UNION {{map[path] : path \in DOMAIN map} : map \in FileMaps}
        \cup {EMPTY_MODULE}

\* Parser::parse on the texts of the runs, computed once per text.
ParsedFiles == [text \in FileTexts |-> parse(text)]

-----------------------------------------------------------------------------
(* loader.rs *)

MockLoader(map) == [kind |-> "Mock", map |-> map]
FileSystemLoader(root, disk) == [kind |-> "FileSystem", root |-> root, disk |-> disk]

\* PathBuf::join followed by to_str: an absolute path replaces the root.
join(root, path) ==
    IF Len(path) > 0 /\ path[1] = "/" THEN path
    ELSE root \o <<"/">> \o path

\* The canonical_path of the LoadRecord that load_raw builds for a path.
canonical_path(ld, path) ==
    IF ld.kind = "FileSystem" THEN join(ld.root, path) ELSE path

\* Loader::load_raw of MockLoader and of FileSystemLoader
load_raw(ld, path) ==
    IF ld.kind = "FileSystem"
    THEN LET file_path == join(ld.root, path)
         IN  IF file_path \in DOMAIN ld.disk
             THEN [tag |-> "Ok", contents |-> ld.disk[file_path],
                   canonical_path |-> file_path]
             ELSE Err("NotFound")
    ELSE IF path \in DOMAIN ld.map
         THEN [tag |-> "Ok", contents |-> ld.map[path], canonical_path |-> path]
         ELSE Err("UnknownFile")

-----------------------------------------------------------------------------
(* linker.rs: impl Loader for Linker *)

\* An insert that records nothing.
insert_dropped(map, key, value) == map

\* HashMap::insert
insert(map, key, value) ==
    [k \in DOMAIN map \cup {key} |-> IF k = key THEN value ELSE map[k]]

\* The key Linker::load_module looks up in loaded_modules.
ledger_key(ld, path) == path

\* The LoadRecord Linker::load_module builds on a cache hit.
placeholder_record(canonical) ==
    [tag |-> "Ok", contents |-> EMPTY_MODULE, canonical_path |-> canonical]

\* parser::Parser::new(lr.contents).parse()
parse_contents(contents) ==
    IF contents \in DOMAIN ParsedFiles THEN ParsedFiles[contents] ELSE parse(contents)

\* Linker::load_module.  The result is [res, ledger, log]: res the returned
\* Result (a LoadRecord<Node> as [tag |-> "Ok", node, canonical_path]), ledger
\* the loaded_modules afterwards, log the load_raw history afterwards.
load_module(ld, ledger, log, path) ==
    IF ledger_key(ld, path) \in DOMAIN ledger
    THEN Let(parse_contents(placeholder_record(ledger[ledger_key(ld, path)]).contents),
             LAMBDA p :
             [res |-> IF p.tag = "Ok"
                      THEN [tag |-> "Ok", node |-> p.node,
                            canonical_path |-> ledger[ledger_key(ld, path)]]
                      ELSE p,
              ledger |-> ledger, log |-> log])
    ELSE Let(load_raw(ld, path), LAMBDA lr :
         IF lr.tag # "Ok"
         THEN [res |-> lr, ledger |-> ledger, log |-> Append(log, path)]
         ELSE Let(parse_contents(lr.contents), LAMBDA p :
              [res |-> IF p.tag = "Ok"
                       THEN [tag |-> "Ok", node |-> p.node,
                             canonical_path |-> lr.canonical_path]
                       ELSE p,
               ledger |-> insert(ledger, lr.canonical_path, lr.canonical_path),
               log |-> Append(log, path)]))

-----------------------------------------------------------------------------
(* features/import.rs *)

\* import::is_file_import_node
is_file_import_node(node) ==
    /\ node.name = NAME_IMPORT
    /\ Len(node.items) = 2
    /\ is_attribute(node.items[1])
    /\ is_node(node.items[2])
    /\ node.items[2].node.name = NAME_FILE

is_file_import_item(item) == is_node(item) /\ is_file_import_node(item.node)

\* The most raw loads one import call makes on an acyclic set of model files;
\* an import call that goes beyond it is following an import cycle, which the
\* code follows without end.
MaxImportLoads == 6

\* The unquoted file path of a string literal: &file_path[1..file_path.len() - 1]
unquoted(file_path) == SubSeq(file_path, 2, Len(file_path) - 1)

RECURSIVE import_loop_keeping_directive(_, _, _, _, _, _)
import_loop_keeping_directive(ld, m, i, ledger, log, budget) ==
    IF i > Len(m.items)
    THEN [tag |-> "Ok", err |-> "", module |-> m, ledger |-> ledger, log |-> log]
    ELSE IF ~is_file_import_item(m.items[i])
    THEN import_loop_keeping_directive(ld, m, i + 1, ledger, log, budget)
    ELSE IF ~is_string_literal(m.items[i].node.items[1].attr)
    THEN [tag |-> "Err", err |-> "InvalidImport", module |-> m,
          ledger |-> ledger, log |-> log]
    ELSE Let(load_module(ld, ledger, log, unquoted(m.items[i].node.items[1].attr)),
             LAMBDA l :
         IF l.res.tag # "Ok"
         THEN [tag |-> l.res.tag, err |-> IF l.res.tag = "Err" THEN l.res.err ELSE "",
               module |-> m, ledger |-> l.ledger, log |-> l.log]
         ELSE IF budget = 0 /\ Len(l.log) > Len(log)
         THEN [tag |-> "Hang", err |-> "", module |-> m,
               ledger |-> l.ledger, log |-> l.log]
         ELSE import_loop_keeping_directive(ld,
                  [m EXCEPT !.items = @ \o l.res.node.items],
                  i + 1, l.ledger, l.log,
                  IF Len(l.log) > Len(log) THEN budget - 1 ELSE budget))

RECURSIVE import_loop(_, _, _, _, _, _)
\* The `while i < module.items.len()` loop of features::import::import, at
\* item i (1-based): the directive is replaced by Item::Nothing, the file is
\* loaded, its items are pushed to the end of the module, where a later round
\* of the loop visits them.  The result is [tag, err, module, ledger, log].
import_loop(ld, m, i, ledger, log, budget) ==
    IF i > Len(m.items)
    THEN [tag |-> "Ok", err |-> "", module |-> m, ledger |-> ledger, log |-> log]
    ELSE IF ~is_file_import_item(m.items[i])
    THEN import_loop(ld, m, i + 1, ledger, log, budget)
    ELSE IF ~is_string_literal(m.items[i].node.items[1].attr)
    THEN [tag |-> "Err", err |-> "InvalidImport",
          module |-> [m EXCEPT !.items[i] = Nothing],
          ledger |-> ledger, log |-> log]
    ELSE Let(load_module(ld, ledger, log, unquoted(m.items[i].node.items[1].attr)),
             LAMBDA l :
         IF l.res.tag # "Ok"
         THEN [tag |-> l.res.tag, err |-> IF l.res.tag = "Err" THEN l.res.err ELSE "",
               module |-> [m EXCEPT !.items[i] = Nothing],
               ledger |-> l.ledger, log |-> l.log]
         ELSE IF budget = 0 /\ Len(l.log) > Len(log)
         THEN [tag |-> "Hang", err |-> "", module |-> [m EXCEPT !.items[i] = Nothing],
               ledger |-> l.ledger, log |-> l.log]
         ELSE import_loop(ld,
                  [m EXCEPT !.items = [@ EXCEPT ![i] = Nothing] \o l.res.node.items],
                  i + 1, l.ledger, l.log,
                  IF Len(l.log) > Len(log) THEN budget - 1 ELSE budget))

\* features::import::import
import(m, ld, ledger, log) ==
    IF ~is_module(m)
    THEN [tag |-> "Err", err |-> "NotAModule", module |-> m,
          ledger |-> ledger, log |-> log]
    ELSE import_loop(ld, m, 1, ledger, log, MaxImportLoads)

-----------------------------------------------------------------------------
(* features/data_import.rs *)

\* The digits `{:x}` writes.
LowerHexDigits == Chars("0123456789abcdef")

\* format!("\\{:02x}", v) for a byte v
format_escaped_byte(v) ==
    <<"\\", LowerHexDigits[(v \div 16) + 1], LowerHexDigits[(v % 16) + 1]>>

\* escaped_data of data_import: the bytes of raw_data, each written as a
\* backslash and two hex digits, joined with "".
escaped_data(bytes) ==
    Join([i \in 1..Len(bytes) |-> format_escaped_byte(bytes[i])], <<>>)

\* The ASCII characters from the space (byte 32) to "_" (byte 95), and from
\* "a" (byte 97) to "~" (byte 126).
AsciiFromSpace ==
    Chars(" !\"#$%&'()*+,-./0123456789:;<=>?@ABCDEFGHIJKLMNOPQRSTUVWXYZ[\\]^_")
AsciiFromLowerA == Chars("abcdefghijklmnopqrstuvwxyz{|}~")

\* The byte of an ASCII character of a file.
byte_of(c) ==
    IF c = "\n" THEN 10
    ELSE IF c = "\t" THEN 9
    ELSE IF \E k \in 1..Len(AsciiFromSpace) : AsciiFromSpace[k] = c
    THEN 31 + CHOOSE k \in 1..Len(AsciiFromSpace) : AsciiFromSpace[k] = c
    ELSE 96 + CHOOSE k \in 1..Len(AsciiFromLowerA) : AsciiFromLowerA[k] = c

\* The bytes load_raw hands to data_import for the contents of a file.
bytes_of(contents) == [i \in 1..Len(contents) |-> byte_of(contents[i])]

\* data_import::is_import_node
is_import_node(node) ==
    /\ node.name = NAME_IMPORT
    /\ Len(node.items) = 2
    /\ is_attribute(node.items[1])
    /\ is_node(node.items[2])
    /\ node.items[2].node.name = NAME_RAW

is_import_item(item) == is_node(item) /\ is_import_node(item.node)

\* The body of the loop of data_import for one data node: the node as it is
\* left, with the load_raw history.  utils::find_child_node_item_mut hands
\* out the first item that is an import node.
import_into(data_node, ld, log) ==
    Let({i \in 1..Len(data_node.items) : is_import_item(data_node.items[i])}, LAMBDA found :
    IF found = {} THEN [tag |-> "Ok", err |-> "", node |-> data_node, log |-> log]
    ELSE Let(data_node.items[first_position(found)].node.items[1].attr, LAMBDA file_path_attr :
    IF ~is_string_literal(file_path_attr)
    THEN [tag |-> "Err", err |-> "Import directive expects a string",
          node |-> data_node, log |-> log]
    ELSE Let(load_raw(ld, unquoted(file_path_attr)), LAMBDA raw :
    IF raw.tag # "Ok"
    THEN [tag |-> "Err", err |-> raw.err, node |-> data_node,
          log |-> Append(log, unquoted(file_path_attr))]
    ELSE [tag |-> "Ok", err |-> "",
          node |-> [data_node EXCEPT !.items[first_position(found)] =
                       Attribute(<<"\"">> \o escaped_data(bytes_of(raw.contents))
                                     \o <<"\"">>)],
          log |-> Append(log, unquoted(file_path_attr))])))

RECURSIVE data_import_loop(_, _, _, _)
\* The loop of data_import over the direct child nodes, at item i.  The
\* result is [tag, err, module, log].
data_import_loop(m, i, ld, log) ==
    IF i > Len(m.items) THEN [tag |-> "Ok", err |-> "", module |-> m, log |-> log]
    ELSE IF ~is_node(m.items[i]) \/ m.items[i].node.name # NAME_DATA
    THEN data_import_loop(m, i + 1, ld, log)
    ELSE Let(import_into(m.items[i].node, ld, log), LAMBDA r :
         IF r.tag # "Ok"
         THEN [tag |-> r.tag, err |-> r.err, module |-> m, log |-> r.log]
         ELSE data_import_loop([m EXCEPT !.items[i] = NodeItem(r.node)], i + 1, ld, r.log))

\* features::data_import::data_import.  The result is [tag, err, module, log].
data_import(m, ld, log) ==
    IF ~is_module(m)
    THEN [tag |-> "Err",
          err |-> "Data importer can only be applied to top-level module sexpr.",
          module |-> m, log |-> log]
    ELSE data_import_loop(m, 1, ld, log)

-----------------------------------------------------------------------------
(* features/start_merge.rs *)

SWL_START_FUNC_ID == Chars("$_swl_start_merger")

is_start_item(item) == is_node(item) /\ item.node.name = NAME_START

\* start_merge.rs: create_start_func
create_start_func(id, body) ==
    Node(NAME_FUNC, 0, <<Attribute(id)>> \o body)

call_items_reversed(depth, ids) ==
    [i \in 1..Len(ids) |->
        NodeItem(Node(NAME_CALL, depth + 2, <<Attribute(ids[Len(ids) + 1 - i])>>))]

\* The `call` nodes start_merge builds from the ids, in the order of the ids.
call_items(depth, ids) ==
    [i \in 1..Len(ids) |->
        NodeItem(Node(NAME_CALL, depth + 2, <<Attribute(ids[i])>>))]

RECURSIVE append_nodes(_, _)
\* start_directives.into_iter().for_each(|node| module.append_node(node))
append_nodes(self, nodes) ==
    IF Len(nodes) = 0 THEN self
    ELSE append_nodes(append_node(self, nodes[1]), Tail(nodes))

\* features::start_merge::start_merge.  The result is [tag, err, module]:
\* module is the tree as the pass leaves it, also when it fails.
start_merge(m) ==
    IF ~is_module(m) THEN [tag |-> "Err", err |-> "NotAModule", module |-> m]
    ELSE
    LET taken == SelectSeq(m.items, is_start_item)
        start_directives == [i \in 1..Len(taken) |-> taken[i].node]
        holes == [m EXCEPT !.items =
                    [i \in 1..Len(m.items) |->
                        IF is_start_item(m.items[i]) THEN Nothing ELSE m.items[i]]]
        found == [i \in 1..Len(start_directives) |->
                    find_id_attribute(start_directives[i])]
    IN
    IF Len(start_directives) <= 1
    THEN [tag |-> "Ok", err |-> "", module |-> append_nodes(holes, start_directives)]
    ELSE IF \E i \in 1..Len(found) : Len(found[i]) = 0
    THEN [tag |-> "Err", err |-> "InvalidStartDirective", module |-> holes]
    ELSE
    LET start_function_ids == [i \in 1..Len(found) |-> found[i][1]]
        new_start_function ==
            create_start_func(SWL_START_FUNC_ID, call_items(holes.depth, start_function_ids))
        with_func == append_node(holes, new_start_function)
    IN  [tag |-> "Ok", err |-> "",
         module |-> append_node(with_func,
                        Node(NAME_START, 0, <<Attribute(SWL_START_FUNC_ID)>>))]

-----------------------------------------------------------------------------
(* features/sort.rs *)

\* sort::has_import_node
has_import_node(ast) ==
    \E i \in 1..Len(node_iter(ast)) : node_iter(ast)[i].name = NAME_IMPORT

compare_import_first(a, b) ==
    IF is_node(a) /\ is_node(b)
    THEN IF has_import_node(a.node) THEN "Less"
         ELSE IF has_import_node(b.node) THEN "Greater"
         ELSE "Equal"
    ELSE "Equal"

\* The comparison closure frontload_imports hands to sort_by.
compare(a, b) ==
    IF is_node(a) /\ is_node(b)
    THEN IF has_import_node(a.node) /\ ~has_import_node(b.node) THEN "Less"
         ELSE IF ~has_import_node(a.node) /\ has_import_node(b.node) THEN "Greater"
         ELSE "Equal"
    ELSE "Equal"

is_less(a, b) == compare(a, b) = "Less"

RECURSIVE insert_tail(_, _)
\* core::slice::sort insert_tail: moves the last element of v left past every
\* element it is less than.
insert_tail(v, j) ==
    IF j > 1 /\ is_less(v[j], v[j - 1])
    THEN insert_tail([v EXCEPT ![j - 1] = v[j], ![j] = v[j - 1]], j - 1)
    ELSE v

RECURSIVE insertion_sort_shift_left(_, _)
\* core::slice::sort insertion_sort_shift_left(v, 1): for i in 1..len, insert
\* v[i] into the sorted prefix v[..i].
insertion_sort_shift_left(v, i) ==
    IF i > Len(v) THEN v
    ELSE insertion_sort_shift_left(insert_tail(v, i), i + 1)

RECURSIVE insert_head(_, _)
\* alloc::slice insert_head on v[j..]: moves v[j] right past every element
\* that is less than it.
insert_head(v, j) ==
    IF j < Len(v) /\ is_less(v[j + 1], v[j])
    THEN insert_head([v EXCEPT ![j] = v[j + 1], ![j + 1] = v[j]], j + 1)
    ELSE v

RECURSIVE insert_heads(_, _)
\* alloc::slice merge_sort on a short slice: for i in (0..len-1).rev(),
\* insert_head(v[i..]).
insert_heads(v, i) ==
    IF i < 1 THEN v
    ELSE insert_heads(insert_head(v, i), i - 1)

\* slice::sort_by on a short slice (at most 20 elements), which the standard
\* library sorts by insertion alone.  The standard library of the build
\* decides which insertion sort runs; with a comparison that is no total
\* order the two can differ.
sort_by(v, impl) ==
    IF Len(v) < 2 THEN v
    ELSE IF impl = "insertion_sort_shift_left" THEN insertion_sort_shift_left(v, 2)
    ELSE insert_heads(v, Len(v) - 1)

\* features::sort::frontload_imports
frontload_imports(m, impl) ==
    IF ~is_module(m) THEN [tag |-> "Err", err |-> "NotAModule", module |-> m]
    ELSE [tag |-> "Ok", err |-> "",
          module |-> [m EXCEPT !.items = sort_by(m.items, impl)]]

\* features::sort::sort
sort(m, impl) == frontload_imports(m, impl)

-----------------------------------------------------------------------------
(* Numbers and their decimal text.  The numbers of the model's texts are     *)
(* below 10^9.                                                               *)

RECURSIVE decimal_value(_, _)
\* The value of a sequence of decimal digits, after the value acc of the
\* digits read before.
decimal_value(digits, acc) ==
    IF Len(digits) = 0 THEN acc
    ELSE decimal_value(Tail(digits), acc * 10 + DigitValue(digits[1]))

\* attr.parse::<usize>() of a text for which it is Ok
usize_value(attr) ==
    decimal_value(IF attr[1] = "+" THEN Tail(attr) ELSE attr, 0)

RECURSIVE to_decimal(_)
\* format!("{}", n) of an unsigned number
to_decimal(n) ==
    IF n < 10 THEN <<Chars("0123456789")[n + 1]>>
    ELSE Append(to_decimal(n \div 10), Chars("0123456789")[(n % 10) + 1])

-----------------------------------------------------------------------------
(* features/size_adjust.rs *)


Panic == [tag |-> "Panic"]

\* |node| node.name == "offset" || node.name == "i32.const"
is_offset_node(node) == node.name = NAME_OFFSET \/ node.name = NAME_I32_CONST

\* |node| node.name == "memory"
is_memory_node(node) == node.name = NAME_MEMORY

\* size_adjust::is_active_data_segment, called on a node named data
is_active_data_segment(data_seg) ==
    \/ Len(SelectSeq(immediate_node_iter(data_seg), is_memory_node)) > 0
    \/ Len(SelectSeq(immediate_node_iter(data_seg), is_offset_node)) > 0

\* The offset of an i32.const node: node.items[0] as a usize, "0" when the
\* item is no attribute.  Indexing an empty items vector panics.
const_offset(node) ==
    IF node.name # NAME_I32_CONST THEN Err("InvalidOffset")
    ELSE IF Len(node.items) = 0 THEN Panic
    ELSE Let(IF is_attribute(node.items[1]) THEN node.items[1].attr ELSE <<"0">>,
             LAMBDA text :
             IF parses_as_usize(text) THEN [tag |-> "Ok", value |-> usize_value(text)]
             ELSE Err("ParseIntError"))

\* The `offset` of a data segment: of its first offset or i32.const child, 0
\* without one.
data_offset(data_seg) ==
    Let(SelectSeq(immediate_node_iter(data_seg), is_offset_node), LAMBDA found :
    IF Len(found) = 0 THEN [tag |-> "Ok", value |-> 0]
    ELSE IF found[1].name = NAME_OFFSET
    THEN (IF Len(found[1].items) = 0 THEN Panic
          ELSE IF ~is_node(found[1].items[1]) THEN Err("InvalidOffset")
          ELSE const_offset(found[1].items[1].node))
    ELSE const_offset(found[1]))

RECURSIVE sum_of_lengths(_, _)
\* Result::from_iter over the interpreted lengths of the attributes that
\* are string literals, then their sum: the first error or panic, else the
\* sum added to acc.  The filter and the map run attribute by attribute.
sum_of_lengths(attrs, acc) ==
    IF Len(attrs) = 0 THEN [tag |-> "Ok", value |-> acc]
    ELSE IF is_string_literal_panics(attrs[1]) THEN Panic
    ELSE IF ~is_string_literal(attrs[1]) THEN sum_of_lengths(Tail(attrs), acc)
    ELSE Let(interpreted_string_length(SubSeq(attrs[1], 2, Len(attrs[1]) - 1)), LAMBDA l :
         IF l.tag # "Ok" THEN l
         ELSE sum_of_lengths(Tail(attrs), acc + l.count))

\* The `data_size` of a data segment
data_size(data_seg) == sum_of_lengths(immediate_attribute_iter(data_seg), 0)

RECURSIVE max_addr_of(_, _)
\* The first loop of size_adjust over the direct child nodes, with max_addr
\* as it stands: [tag |-> "Ok", value |-> max_addr], the error or the panic.
max_addr_of(nodes, max_addr) ==
    IF Len(nodes) = 0 THEN [tag |-> "Ok", value |-> max_addr]
    ELSE IF nodes[1].name # NAME_DATA \/ ~is_active_data_segment(nodes[1])
    THEN max_addr_of(Tail(nodes), max_addr)
    ELSE Let(data_offset(nodes[1]), LAMBDA offset :
         IF offset.tag # "Ok" THEN offset
         ELSE Let(data_size(nodes[1]), LAMBDA size :
              IF size.tag # "Ok" THEN size
              ELSE max_addr_of(Tail(nodes),
                       IF offset.value + size.value > max_addr
                       THEN offset.value + size.value ELSE max_addr)))

RECURSIVE f32_ulp(_, _)
\* The distance of neighbouring f32 values at the magnitude of n: the least
\* power of two u, from u on, with n < 2^24 * u.
f32_ulp(n, u) == IF n \div u < 16777216 THEN u ELSE f32_ulp(n, 2 * u)

\* `max_addr as f32`: the f32 nearest to n, ties to the even significand.
as_f32(n) ==
    Let(f32_ulp(n, 1), LAMBDA u :
    IF 2 * (n % u) < u THEN (n \div u) * u
    ELSE IF 2 * (n % u) > u THEN ((n \div u) + 1) * u
    ELSE IF (n \div u) % 2 = 0 THEN (n \div u) * u
    ELSE ((n \div u) + 1) * u)

\* ((max_addr as f32) / (64.0 * 1024.0)).ceil() as usize, at least 1
num_pages(max_addr) ==
    IF (as_f32(max_addr) + 65535) \div 65536 < 1 THEN 1
    ELSE (as_f32(max_addr) + 65535) \div 65536

\* The memory node with its first attribute that parses as usize set to the
\* page count, or with the page count pushed when it has none.
with_pages(memory_node, pages) ==
    Let({i \in 1..Len(memory_node.items) :
            /\ is_attribute(memory_node.items[i])
            /\ parses_as_usize(memory_node.items[i].attr)}, LAMBDA numeric :
    IF numeric # {}
    THEN [memory_node EXCEPT !.items[first_position(numeric)] = Attribute(to_decimal(pages))]
    ELSE [memory_node EXCEPT !.items = Append(@, Attribute(to_decimal(pages)))])

\* features::size_adjust::size_adjust.  The result is [tag, err, module].
size_adjust(m) ==
    IF ~is_module(m) THEN [tag |-> "Err", err |-> "NotAModule", module |-> m]
    ELSE Let(max_addr_of(immediate_node_iter(m), 0), LAMBDA max_addr :
    IF max_addr.tag = "Panic" THEN [tag |-> "Panic", err |-> "", module |-> m]
    ELSE IF max_addr.tag # "Ok" THEN [tag |-> "Err", err |-> max_addr.err, module |-> m]
    ELSE Let({i \in 1..Len(m.items) :
                 is_node(m.items[i]) /\ is_memory_node(m.items[i].node)}, LAMBDA memories :
    IF memories = {} THEN [tag |-> "Ok", err |-> "", module |-> m]
    ELSE [tag |-> "Ok", err |-> "",
          module |-> [m EXCEPT !.items[first_position(memories)] =
                         NodeItem(with_pages(@.node, num_pages(max_addr.value)))]]))

-----------------------------------------------------------------------------
(* features/numerals.rs.  A 64-bit value is kept as a sign and a magnitude,  *)
(* the magnitude as its decimal digits, least significant first, <<>> for 0. *)

UpperHexDigits == Chars("0123456789ABCDEF")

\* char::to_digit(radix), -1 for None
to_digit(c, radix) ==
    IF \E v \in 0..(radix - 1) : LowerHexDigits[v + 1] = c \/ UpperHexDigits[v + 1] = c
    THEN CHOOSE v \in 0..(radix - 1) : LowerHexDigits[v + 1] = c \/ UpperHexDigits[v + 1] = c
    ELSE -1

RECURSIVE times_plus(_, _, _)
\* magnitude * radix + carry
times_plus(magnitude, radix, carry) ==
    IF Len(magnitude) = 0
    THEN (IF carry = 0 THEN <<>>
          ELSE <<carry % 10>> \o times_plus(<<>>, radix, carry \div 10))
    ELSE <<(magnitude[1] * radix + carry) % 10>>
             \o times_plus(Tail(magnitude), radix, (magnitude[1] * radix + carry) \div 10)

RECURSIVE magnitude_of(_, _, _)
\* The magnitude of the digits in the radix, after the magnitude acc of the
\* digits read before.
magnitude_of(digits, radix, acc) ==
    IF Len(digits) = 0 THEN acc
    ELSE magnitude_of(Tail(digits), radix, times_plus(acc, radix, to_digit(digits[1], radix)))

\* The sequence in reverse order.
Reverse(s) == [i \in 1..Len(s) |-> s[Len(s) + 1 - i]]

RECURSIVE digits_le(_, _)
\* Comparison of two magnitudes of the same length, most significant first.
digits_le(a, b) ==
    IF Len(a) = 0 THEN TRUE
    ELSE IF a[1] < b[1] THEN TRUE
    ELSE IF a[1] > b[1] THEN FALSE
    ELSE digits_le(Tail(a), Tail(b))

\* magnitude <= limit, the limit given as decimal text
magnitude_le(magnitude, limit) ==
    \/ Len(magnitude) < Len(limit)
    \/ /\ Len(magnitude) = Len(limit)
       /\ digits_le(Reverse(magnitude), [i \in 1..Len(limit) |-> DigitValue(limit[i])])

\* i64::MAX and the magnitude of i64::MIN
I64_MAX_DIGITS == Chars("9223372036854775807")
I64_MIN_DIGITS == Chars("9223372036854775808")

\* i64::from_str_radix(src, radix): an optional sign, then one or more digits
\* of the radix, the value within the range of i64.
from_str_radix(src, radix) ==
    IF Len(src) = 0 THEN Err("Empty")
    ELSE Let(src[1] = "-", LAMBDA negative :
         Let(IF src[1] \in {"+", "-"} THEN Tail(src) ELSE src, LAMBDA digits :
         IF Len(digits) = 0 \/ \E i \in 1..Len(digits) : to_digit(digits[i], radix) < 0
         THEN Err("InvalidDigit")
         ELSE Let(magnitude_of(digits, radix, <<>>), LAMBDA magnitude :
              IF magnitude_le(magnitude, IF negative THEN I64_MIN_DIGITS ELSE I64_MAX_DIGITS)
              THEN [tag |-> "Ok", negative |-> negative /\ Len(magnitude) > 0,
                    magnitude |-> magnitude]
              ELSE Err(IF negative THEN "NegOverflow" ELSE "PosOverflow"))))

\* format!("{}", v) of an i64
format_i64(v) ==
    (IF v.negative THEN <<"-">> ELSE <<>>)
        \o (IF Len(v.magnitude) = 0 THEN <<"0">>
            ELSE Let(Reverse(v.magnitude), LAMBDA digits :
                 [i \in 1..Len(digits) |-> Chars("0123456789")[digits[i] + 1]]))

\* attr.replace("_", "")
without_underscores(attr) == SelectSeq(attr, LAMBDA c : c # "_")

\* One of the two `if` statements of the loop of numerals, for the prefix
\* and its radix: the attribute as it is left, or the error.
rewrite_radix(attr, prefix, radix) ==
    IF ~StartsWith(attr, prefix) THEN [tag |-> "Ok", attr |-> attr]
    ELSE Let(from_str_radix(SubSeq(without_underscores(attr), 3,
                                   Len(without_underscores(attr))), radix), LAMBDA v :
         IF v.tag # "Ok" THEN Err("InvalidNumericLiteral")
         ELSE [tag |-> "Ok", attr |-> format_i64(v)])

\* The body of the loop of numerals for one attribute.
rewrite_numeral(attr) ==
    Let(rewrite_radix(attr, <<"0", "x">>, 16), LAMBDA hex :
    IF hex.tag # "Ok" THEN hex
    ELSE rewrite_radix(hex.attr, <<"0", "b">>, 2))

RECURSIVE numerals_attributes(_, _)
\* The loop of numerals over the attributes of one node, from item i on: the
\* items as the loop leaves them, with the error when it stopped at one.
numerals_attributes(items, i) ==
    IF i > Len(items) THEN [tag |-> "Ok", items |-> items]
    ELSE IF ~is_attribute(items[i]) THEN numerals_attributes(items, i + 1)
    ELSE Let(rewrite_numeral(items[i].attr), LAMBDA r :
         IF r.tag # "Ok" THEN [tag |-> "Err", err |-> r.err, items |-> items]
         ELSE numerals_attributes([items EXCEPT ![i] = Attribute(r.attr)], i + 1))

RECURSIVE numerals_node(_)
RECURSIVE numerals_children(_, _)
\* The loop of numerals from a node on, in the order of node_iter_mut: the
\* attributes of the node, then the subtree of each child node in turn.
numerals_node(node) ==
    Let(numerals_attributes(node.items, 1), LAMBDA own :
    IF own.tag # "Ok"
    THEN [tag |-> "Err", err |-> own.err, node |-> [node EXCEPT !.items = own.items]]
    ELSE Let(numerals_children(own.items, 1), LAMBDA below :
         [tag |-> below.tag, err |-> below.err,
          node |-> [node EXCEPT !.items = below.items]]))
numerals_children(items, i) ==
    IF i > Len(items) THEN [tag |-> "Ok", err |-> "", items |-> items]
    ELSE IF ~is_node(items[i]) THEN numerals_children(items, i + 1)
    ELSE Let(numerals_node(items[i].node), LAMBDA r :
         IF r.tag # "Ok"
         THEN [tag |-> "Err", err |-> r.err,
               items |-> [items EXCEPT ![i] = NodeItem(r.node)]]
         ELSE numerals_children([items EXCEPT ![i] = NodeItem(r.node)], i + 1))

\* features::numerals::numerals.  The result is [tag, err, module].
numerals(m) ==
    Let(numerals_node(m), LAMBDA r :
        [tag |-> r.tag, err |-> r.err, module |-> r.node])

-----------------------------------------------------------------------------
(* eval.rs and utils::run_wat: the execution capability.  wat::parse_str and *)
(* wasm3 are modelled for the expressions of the model's texts: constants    *)
(* with a decimal integer literal, add, and global.get of a constant global; *)
(* every other form of the model's texts is one the toolchain rejects.  The  *)
(* sums of the model's texts stay within 32 bits.                            *)

NAME_GLOBAL == Chars("global")
NAME_GLOBAL_GET == Chars("global.get")

\* The value types of eval.rs (WasmTypeName)
WasmTypes == {Chars("i32"), Chars("i64"), Chars("f32"), Chars("f64")}

\* str::ends_with on character sequences.
EndsWith(s, suffix) ==
    /\ Len(suffix) <= Len(s)
    /\ SubSeq(s, Len(s) - Len(suffix) + 1, Len(s)) = suffix

\* str::contains on character sequences.
Contains(s, sub) ==
    \E i \in 1..(Len(s) - Len(sub) + 1) : SubSeq(s, i, i + Len(sub) - 1) = sub

\* s.split(sep).nth(n), n counted from 0, for a text that has the piece.
split_nth(s, sep, n) ==
    Let({i \in 1..Len(s) : s[i] = sep}, LAMBDA seps :
    Let([k \in 0..(Cardinality(seps) + 1) |->
            IF k = 0 THEN 0
            ELSE IF k = Cardinality(seps) + 1 THEN Len(s) + 1
            ELSE CHOOSE i \in seps : Cardinality({j \in seps : j < i}) = k - 1],
        LAMBDA cuts : SubSeq(s, cuts[n] + 1, cuts[n + 1] - 1)))

\* A decimal integer literal: an optional sign and one to nine digits.
is_integer_literal(lit) ==
    Let(IF Len(lit) > 0 /\ lit[1] \in {"+", "-"} THEN Tail(lit) ELSE lit, LAMBDA digits :
        /\ Len(digits) \in 1..9
        /\ \A i \in 1..Len(digits) : digits[i] \in DigitChars)

\* The value of a decimal integer literal.
integer_value(lit) ==
    IF lit[1] = "-" THEN 0 - decimal_value(Tail(lit), 0)
    ELSE IF lit[1] = "+" THEN decimal_value(Tail(lit), 0)
    ELSE decimal_value(lit, 0)

\* format!("{}", value) of the value main returned: a signed integer, or a
\* float with an integral value, which Display writes without a fraction.
format_value(v) == IF v < 0 THEN <<"-">> \o to_decimal(0 - v) ELSE to_decimal(v)

\* The constant expression `(T.const N)`: its type and value.
const_value(node) ==
    IF /\ Len(node.name) = 9
       /\ SubSeq(node.name, 1, 3) \in WasmTypes
       /\ SubSeq(node.name, 4, 9) = Chars(".const")
       /\ Len(node.items) = 1
       /\ is_attribute(node.items[1])
       /\ is_integer_literal(node.items[1].attr)
    THEN [tag |-> "Ok", typ |-> SubSeq(node.name, 1, 3),
          value |-> integer_value(node.items[1].attr)]
    ELSE Err("EvalError")

\* A global the module declares as `(global $id T (T.const N))`.
is_const_global(node) ==
    /\ node.name = NAME_GLOBAL
    /\ Len(node.items) = 3
    /\ is_attribute(node.items[1]) /\ is_named_id(node.items[1].attr)
    /\ is_attribute(node.items[2]) /\ node.items[2].attr \in WasmTypes
    /\ is_node(node.items[3])
    /\ const_value(node.items[3].node).tag = "Ok"
    /\ const_value(node.items[3].node).typ = node.items[2].attr

RECURSIVE wasm_value(_, _)
\* The type and value an expression of the function body leaves, with the
\* globals of the module.
wasm_value(node, globals) ==
    IF Len(node.name) = 9 /\ SubSeq(node.name, 4, 9) = Chars(".const")
    THEN const_value(node)
    ELSE IF /\ Len(node.name) = 7
            /\ SubSeq(node.name, 1, 3) \in WasmTypes
            /\ SubSeq(node.name, 4, 7) = Chars(".add")
            /\ Len(node.items) = 2
            /\ is_node(node.items[1]) /\ is_node(node.items[2])
    THEN Let(wasm_value(node.items[1].node, globals), LAMBDA a :
         Let(wasm_value(node.items[2].node, globals), LAMBDA b :
         IF /\ a.tag = "Ok" /\ b.tag = "Ok"
            /\ a.typ = SubSeq(node.name, 1, 3) /\ b.typ = SubSeq(node.name, 1, 3)
         THEN [tag |-> "Ok", typ |-> a.typ, value |-> a.value + b.value]
         ELSE Err("EvalError")))
    ELSE IF /\ node.name = NAME_GLOBAL_GET
            /\ Len(node.items) = 1
            /\ is_attribute(node.items[1])
    THEN Let(SelectSeq(globals, LAMBDA g : g.items[1] = node.items[1]), LAMBDA named :
         IF Len(named) = 1 THEN const_value(named[1].items[3].node)
         ELSE Err("EvalError"))
    ELSE Err("EvalError")

\* utils::run_wat::<V> for the type name of V on the text eval_expr builds:
\* the module is parsed, its globals and the body of main are checked, and
\* the value main returns is computed.
run_wat(typ, wat) ==
    Let(parse(wat), LAMBDA p :
    IF p.tag # "Ok" THEN Err("EvalError")
    ELSE Let(immediate_node_iter(p.node), LAMBDA fields :
    Let(SubSeq(fields, 1, Len(fields) - 1), LAMBDA globals :
    Let(fields[Len(fields)], LAMBDA main :
    IF \/ \E i \in 1..Len(p.node.items) : ~is_node(p.node.items[i])
       \/ \E i \in 1..Len(globals) : ~is_const_global(globals[i])
       \/ \E i, j \in 1..Len(globals) : i # j /\ globals[i].items[1] = globals[j].items[1]
       \/ Len(main.items) # 3
       \/ ~is_node(main.items[3])
    THEN Err("EvalError")
    ELSE Let(wasm_value(main.items[3].node, globals), LAMBDA v :
         IF v.tag = "Ok" /\ v.typ = typ THEN [tag |-> "Ok", value |-> v.value]
         ELSE Err("EvalError"))))))

\* eval::eval_expr::<V> for the type name of V
eval_expr(typ, node, prelude) ==
    IF Len(node.items) = 0 THEN Err("Constexpr is missing expression")
    ELSE run_wat(typ,
             Chars("\n(module\n") \o prelude
                 \o Chars("\n(func (export \"main\") (result ") \o typ \o Chars(")\n")
                 \o DisplayItem(node.items[1]) \o Chars("\n)\n)\n"))

-----------------------------------------------------------------------------
(* features/constexpr.rs *)

SUFFIX_CONSTEXPR == Chars(".constexpr")
PREFIX_OFFSET == Chars("offset=")

\* constexpr::is_constexpr_node
is_constexpr_node(node) == EndsWith(node.name, SUFFIX_CONSTEXPR)

\* constexpr::has_constexprs
has_constexprs(node) ==
    \E i \in 1..Len(node_iter(node)) : is_constexpr_node(node_iter(node)[i])

\* The prelude with every direct child global, a constexpr node in it or not.
prelude_of_every_global(m) ==
    Let(SelectSeq(immediate_node_iter(m), LAMBDA node : node.name = NAME_GLOBAL),
        LAMBDA globals :
        Join([i \in 1..Len(globals) |-> Display(globals[i])], <<"\n">>))

\* The prelude of constexpr: the direct child globals without a constexpr
\* node, serialized and joined with newlines.
prelude_of(m) ==
    Let(SelectSeq(immediate_node_iter(m),
                  LAMBDA node : node.name = NAME_GLOBAL /\ ~has_constexprs(node)),
        LAMBDA globals :
        Join([i \in 1..Len(globals) |-> Display(globals[i])], <<"\n">>))

\* The `match typ.as_str()` of process_constexpr and process_offset_constexpr:
\* the formatted value, or the error.
folded_value(typ, node, prelude) ==
    IF typ \notin WasmTypes THEN Err("UnknownType")
    ELSE Let(eval_expr(typ, node, prelude), LAMBDA v :
         IF v.tag # "Ok" THEN v
         ELSE [tag |-> "Ok", value |-> format_value(v.value)])

RECURSIVE process_constexpr_node(_, _)
RECURSIVE process_constexpr_items(_, _, _, _)
\* The loop of process_constexpr from a node on, in the order of
\* node_iter_mut.  The result is [tag, err, node, dangling]: dangling tells
\* that the walker went on with pointers to children of a folded node, which
\* the assignment to node.items had dropped.  The walker had pushed them
\* before it yielded the node; the loop goes through them, as they were,
\* right after the fold, and an error there ends the loop.
process_constexpr_node(node, prelude) ==
    IF is_constexpr_node(node)
    THEN Let(folded_value(split_nth(node.name, ".", 0), node, prelude), LAMBDA v :
         IF v.tag # "Ok"
         THEN [tag |-> "Err", err |-> v.err, node |-> node, dangling |-> FALSE]
         ELSE Let(process_constexpr_items(node.items, 1, prelude, FALSE), LAMBDA stale :
              [tag |-> stale.tag, err |-> stale.err,
               node |-> [name |-> SubSeq(node.name, 1, Len(node.name) - 4),
                         depth |-> node.depth,
                         items |-> <<Attribute(v.value)>>],
               dangling |-> Len(immediate_node_iter(node)) > 0]))
    ELSE Let(process_constexpr_items(node.items, 1, prelude, FALSE), LAMBDA r :
         [tag |-> r.tag, err |-> r.err, node |-> [node EXCEPT !.items = r.items],
          dangling |-> r.dangling])
process_constexpr_items(items, i, prelude, dangling) ==
    IF i > Len(items)
    THEN [tag |-> "Ok", err |-> "", items |-> items, dangling |-> dangling]
    ELSE IF ~is_node(items[i]) THEN process_constexpr_items(items, i + 1, prelude, dangling)
    ELSE Let(process_constexpr_node(items[i].node, prelude), LAMBDA r :
         IF r.tag # "Ok"
         THEN [tag |-> "Err", err |-> r.err,
               items |-> [items EXCEPT ![i] = NodeItem(r.node)],
               dangling |-> dangling \/ r.dangling]
         ELSE process_constexpr_items([items EXCEPT ![i] = NodeItem(r.node)], i + 1,
                                      prelude, dangling \/ r.dangling))

\* constexpr::is_memop
is_memop(node) ==
    Contains(node.name, Chars(".store")) \/ Contains(node.name, Chars(".load"))

\* The body of the loop of process_offset_constexpr for a memory operation
\* with its memarg at item k: the items as they are left, or the error.
fold_memarg(items, k, prelude) ==
    Let(split_nth(items[k].attr, "=", 1), LAMBDA expr_str :
    IF ~StartsWith(expr_str, <<"(">>) THEN [tag |-> "Ok", err |-> "", items |-> items]
    ELSE Let(parse(expr_str), LAMBDA expr_node :
    IF expr_node.tag = "Hang" THEN [tag |-> "Hang", err |-> "", items |-> items]
    ELSE IF expr_node.tag # "Ok"
    THEN [tag |-> "Err", err |-> expr_node.err, items |-> items]
    ELSE Let(folded_value(split_nth(expr_node.node.name, ".", 0), expr_node.node, prelude),
             LAMBDA v :
         IF v.tag # "Ok" THEN [tag |-> "Err", err |-> v.err, items |-> items]
         ELSE [tag |-> "Ok", err |-> "",
               items |-> [items EXCEPT ![k] = Attribute(PREFIX_OFFSET \o v.value)]])))

RECURSIVE process_offset_node(_, _)
RECURSIVE process_offset_items(_, _, _)
\* The loop of process_offset_constexpr from a node on.  The result is
\* [tag, err, node].
process_offset_node(node, prelude) ==
    Let({k \in 1..Len(node.items) :
            is_attribute(node.items[k]) /\ StartsWith(node.items[k].attr, PREFIX_OFFSET)},
        LAMBDA memargs :
    Let(IF is_memop(node) /\ memargs # {}
        THEN fold_memarg(node.items, first_position(memargs), prelude)
        ELSE [tag |-> "Ok", err |-> "", items |-> node.items], LAMBDA own :
    IF own.tag # "Ok"
    THEN [tag |-> own.tag, err |-> own.err, node |-> node]
    ELSE Let(process_offset_items(own.items, 1, prelude), LAMBDA r :
         [tag |-> r.tag, err |-> r.err, node |-> [node EXCEPT !.items = r.items]])))
process_offset_items(items, i, prelude) ==
    IF i > Len(items) THEN [tag |-> "Ok", err |-> "", items |-> items]
    ELSE IF ~is_node(items[i]) THEN process_offset_items(items, i + 1, prelude)
    ELSE Let(process_offset_node(items[i].node, prelude), LAMBDA r :
         IF r.tag # "Ok"
         THEN [tag |-> r.tag, err |-> r.err,
               items |-> [items EXCEPT ![i] = NodeItem(r.node)]]
         ELSE process_offset_items([items EXCEPT ![i] = NodeItem(r.node)], i + 1, prelude))

\* What a build makes of the walker going on with dangling pointers: it reads
\* the dropped children as they were, which changes nothing in the tree, or
\* the process is ended.
DanglingOutcomes == {"stale", "crash"}

\* features::constexpr::constexpr, with the outcome the build has where the
\* walker of process_constexpr goes on with dangling pointers.  The result is
\* [tag, err, module].
constexpr(m, outcome) ==
    IF ~is_module(m) THEN [tag |-> "Err", err |-> "NotAModule", module |-> m]
    ELSE Let(prelude_of(m), LAMBDA prelude :
    Let(process_constexpr_node(m, prelude), LAMBDA folded :
    IF folded.dangling /\ outcome = "crash"
    THEN [tag |-> "Crash", err |-> "", module |-> folded.node]
    ELSE IF folded.tag # "Ok"
    THEN [tag |-> "Err", err |-> folded.err, module |-> folded.node]
    ELSE Let(process_offset_node(folded.node, prelude), LAMBDA r :
         [tag |-> r.tag, err |-> r.err, module |-> r.node])))

-----------------------------------------------------------------------------
(* linker.rs: Linker::link_file and Linker::link_module *)

\* features::Feature applied to the module with the linker's state.  The
\* result is [tag, err, module, ledger, log].
apply_feature(f, m, ld, ledger, log, impl) ==
    IF f = "import" THEN import(m, ld, ledger, log)
    ELSE Let(IF f = "start_merge" THEN start_merge(m) ELSE sort(m, impl), LAMBDA r :
         [tag |-> r.tag, err |-> r.err, module |-> r.module,
          ledger |-> ledger, log |-> log])

next_feature_reversed(fs, done) == fs[Len(fs) - done]

\* `for feature in self.features.clone()`: the feature invoked after `done`
\* features have been.
next_feature(fs, done) == fs[done + 1]

question_mark_ignored(r) == TRUE

\* The `?` of `feature(&mut module, self)?`: the loop goes on only after Ok.
feature_ok(r) == r.tag = "Ok"

-----------------------------------------------------------------------------
(* Bounds and idle values *)

\* Longest input text handed to the parser, in characters.
MaxInputLen == 6

\* The characters input texts are drawn from: both parentheses, a whitespace
\* character that also ends a line comment, an identifier character, the
\* comment character, the string quote and the escape character.
InputChars == {"(", ")", "\n", "a", ";", "\"", "\\"}

NoResult == [tag |-> "None"]
NoNode == Node(<<>>, 0, <<>>)

ParseIdle ==
    /\ input = <<>> /\ parsed = NoResult /\ s1 = <<>>
    /\ reparsed = NoResult /\ pphase = "off"

LinkIdle ==
    /\ loader = [kind |-> "None"] /\ loaded_modules = <<>> /\ features = <<>>
    /\ module = NoNode /\ fidx = 0 /\ lphase = "off" /\ error = ""
    /\ invoked = <<>> /\ raw_loads = <<>> /\ last_load = NoResult
    /\ links = 0 /\ calls = 0

PassIdle ==
    /\ src_text = <<>> /\ tree = NoNode /\ prev_tree = NoNode
    /\ applied = <<>> /\ pass_result = "Ok"

UtilIdle ==
    /\ raw_data = <<>> /\ literal = <<>> /\ measured = NoResult /\ uphase = "off"

PrettyIdle ==
    /\ code = <<>> /\ pretty_module = NoResult /\ pretty_again = NoResult
    /\ fphase = "off" /\ overflow_checks = FALSE

-----------------------------------------------------------------------------
(* The parse / serialize / reparse script of the parser tests                *)
(* (parser.rs, parse_and_compare), continued by one more round.              *)

\* Parser::new(input).parse()
DoParse ==
    /\ pphase = "input"
    /\ parsed' = parse(input)
    /\ pphase' = "parsed"
    /\ UNCHANGED <<input, s1, reparsed, linkVars, passVars, sort_impl, prettyVars, utilVars>>

\* format!("{}", ast) on a parsed node
DoSerialize ==
    /\ pphase = "parsed"
    /\ parsed.tag = "Ok"
    /\ s1' = Display(parsed.node)
    /\ pphase' = "serialized"
    /\ UNCHANGED <<input, parsed, reparsed, linkVars, passVars, sort_impl, prettyVars, utilVars>>

\* Parser::new(s1).parse()
DoReparse ==
    /\ pphase = "serialized"
    /\ reparsed' = parse(s1)
    /\ pphase' = "reparsed"
    /\ UNCHANGED <<input, parsed, s1, linkVars, passVars, sort_impl, prettyVars, utilVars>>

-----------------------------------------------------------------------------
(* The loaders and calls of the linker runs *)

\* The root directory of the FileSystemLoader of the runs.
Root == Chars("/r")

\* The files of a map as the disk under Root.
DiskOf(map) ==
    [file_path \in {join(Root, path) : path \in DOMAIN map} |->
        map[CHOOSE path \in DOMAIN map : join(Root, path) = file_path]]

Loaders ==
    {MockLoader(map) : map \in FileMaps}
        \cup {FileSystemLoader(Root, DiskOf(map)) : map \in FileMaps}

\* The paths link_file and load_module are called with: the three files and
\* one that does not exist.
CallPaths == {<<"0">>, <<"1">>, <<"9">>}
EntryPaths == {<<"0">>}

FeatureNames == {"import", "start_merge", "sort"}

RECURSIVE SeqsUpTo(_, _)
\* All sequences over S of length at most n.
SeqsUpTo(S, n) ==
    IF n = 0 THEN {<<>>}
    ELSE LET shorter == SeqsUpTo(S, n - 1)
         IN  shorter \cup {Append(t, c) : t \in {u \in shorter : Len(u) = n - 1},
                                          c \in S}

\* The feature lists of the runs: every list of distinct features.
FeatureLists ==
    {fs \in SeqsUpTo(FeatureNames, Cardinality(FeatureNames)) :
        \A i, j \in 1..Len(fs) : i # j => fs[i] # fs[j]}

\* Most link_file calls on one linker.
MaxLinks == 1
\* Most direct load_module calls on one linker.
MaxCalls == 2

-----------------------------------------------------------------------------
(* The linker's operations *)

\* Linker::link_file up to the call of link_module: load_module(path)?.contents
LinkFile(path) ==
    /\ lphase \in {"idle", "done", "failed"}
    /\ links < MaxLinks
    /\ Let(load_module(loader, loaded_modules, raw_loads, path), LAMBDA l :
           /\ loaded_modules' = l.ledger
           /\ raw_loads' = l.log
           /\ module' = (IF l.res.tag = "Ok" THEN l.res.node ELSE NoNode)
           /\ lphase' = (IF l.res.tag = "Ok" THEN "linking"
                         ELSE IF l.res.tag = "Err" THEN "failed" ELSE "hung")
           /\ error' = (IF l.res.tag = "Err" THEN l.res.err ELSE ""))
    /\ links' = links + 1
    /\ fidx' = 0
    /\ invoked' = <<>>
    /\ UNCHANGED <<loader, features, last_load, calls, parseVars, passVars, sort_impl, prettyVars, utilVars>>

\* One round of the loop of Linker::link_module: feature(&mut module, self)?
RunFeature ==
    /\ lphase = "linking"
    /\ fidx < Len(features)
    /\ Let(apply_feature(next_feature(features, fidx), module, loader,
                         loaded_modules, raw_loads, sort_impl), LAMBDA r :
           /\ invoked' = Append(invoked, [feature |-> next_feature(features, fidx),
                                          tag |-> r.tag, err |-> r.err])
           /\ loaded_modules' = r.ledger
           /\ raw_loads' = r.log
           /\ IF feature_ok(r)
              THEN /\ module' = r.module
                   /\ UNCHANGED <<lphase, error>>
              ELSE /\ module' = NoNode
                   /\ lphase' = (IF r.tag = "Hang" THEN "hung" ELSE "failed")
                   /\ error' = r.err)
    /\ fidx' = fidx + 1
    /\ UNCHANGED <<loader, features, last_load, links, calls, parseVars, passVars, sort_impl, prettyVars, utilVars>>

\* The end of Linker::link_module: Ok(module)
Return ==
    /\ lphase = "linking"
    /\ fidx = Len(features)
    /\ lphase' = "done"
    /\ UNCHANGED <<loader, loaded_modules, features, module, fidx, error, invoked,
                   raw_loads, last_load, links, calls, parseVars, passVars, sort_impl, prettyVars, utilVars>>

\* A direct call of Linker::load_module (impl Loader for Linker)
LoadModuleCall(path) ==
    /\ lphase \in {"idle", "done", "failed"}
    /\ calls < MaxCalls
    /\ Let(load_module(loader, loaded_modules, raw_loads, path), LAMBDA l :
           /\ loaded_modules' = l.ledger
           /\ raw_loads' = l.log
           /\ last_load' = [tag |-> "Called", path |-> path,
                            ledger_before |-> DOMAIN loaded_modules,
                            raw_loaded |-> Len(l.log) > Len(raw_loads),
                            res |-> l.res])
    /\ calls' = calls + 1
    /\ UNCHANGED <<loader, features, module, fidx, lphase, error, invoked, links,
                   parseVars, passVars, sort_impl, prettyVars, utilVars>>

InitLink ==
    /\ loader \in Loaders
    /\ features \in FeatureLists
    /\ loaded_modules = <<>>
    /\ module = NoNode /\ fidx = 0 /\ lphase = "idle" /\ error = ""
    /\ invoked = <<>> /\ raw_loads = <<>> /\ last_load = NoResult
    /\ links = 0 /\ calls = 0
    /\ ParseIdle /\ PassIdle /\ UtilIdle /\ PrettyIdle
    /\ sort_impl = "insertion_sort_shift_left"

NextLink ==
    \/ \E path \in EntryPaths : LinkFile(path)
    \/ RunFeature
    \/ Return
    \/ \E path \in CallPaths : LoadModuleCall(path)

SpecLink == InitLink /\ [][NextLink]_vars

\* The characters a text the parser does not reject at once starts with:
\* the parenthesis, whitespace and the comment character.
StartChars == {"(", "\n", ";"}

RECURSIVE StartedTexts(_)
\* The texts of 1 to n characters that start with one of StartChars.
StartedTexts(n) ==
    IF n = 1 THEN {<<c>> : c \in StartChars}
    ELSE LET shorter == StartedTexts(n - 1)
         IN  shorter \cup {Append(t, c) : t \in {u \in shorter : Len(u) = n - 1},
                                          c \in InputChars}

\* Texts with a comment right behind a token, and texts that end inside a
\* comment or a string.
CommentedTexts ==
    {Chars("(a b;;c\n)"), Chars("(a b(; c ;))"), Chars("(a b ;;c\n)"),
     Chars("(a b (; c ;))"), Chars("(a \"b;;c\")"), Chars("(a b ;;c"),
     Chars("(a b) (; c"), Chars("(a \"b"), Chars("(a b) ;; c")}

\* The input texts of the parser runs, of at most n characters.  A text that
\* starts with another character is rejected at that character whatever
\* follows; of these only the one-character texts are kept.
InputTexts(n) ==
    {<<>>} \cup {<<c>> : c \in InputChars} \cup StartedTexts(n) \cup CommentedTexts

InitParse ==
    /\ input \in InputTexts(MaxInputLen)
    /\ parsed = NoResult /\ s1 = <<>> /\ reparsed = NoResult
    /\ pphase = "input"
    /\ LinkIdle /\ PassIdle /\ UtilIdle /\ PrettyIdle
    /\ sort_impl = "insertion_sort_shift_left"

NextParse == DoParse \/ DoSerialize \/ DoReparse

SpecParse == InitParse /\ [][NextParse]_vars

-----------------------------------------------------------------------------
(* The passes start_merge and sort on parsed modules *)

\* The items the modules of the pass runs are made of: the items of the
\* start_merge test simple_merge and of the sort tests, a start directive with
\* a numeric id, one with a numeric and a named id, one without an id, and a
\* module id attribute.
PassItems ==
    <<"(func $t1)", "(start $t1)", "(func $t2)", "(start $t2)",
      "(import \"a\")", "(func $f (import \"b\"))",
      "(start 7)", "(start 7 $n)", "(start)", "$id">>

\* Most items of a module of the pass runs.
MaxItems == 4
\* Most passes applied to one module.
MaxPasses == 2

RECURSIVE Selections(_)
\* The sequences of at most n distinct indices of PassItems.
Selections(n) ==
    IF n = 0 THEN {<<>>}
    ELSE LET shorter == Selections(n - 1)
         IN  shorter \cup
             UNION {{Append(t, k) : k \in (1..Len(PassItems)) \ {t[j] : j \in 1..Len(t)}} :
                        t \in {u \in shorter : Len(u) = n - 1}}

\* The text of the module with the selected items.
ModuleText(sel) ==
    Chars("(module") \o Join([j \in 1..Len(sel) |-> <<" ">> \o Chars(PassItems[sel[j]])], <<>>)
        \o <<")">>

\* The insertion sorts slice::sort_by runs on a short slice, by standard
\* library.
SortImpls == {"insertion_sort_shift_left", "insert_head"}

\* start_merge(&mut module, &mut linker)
ApplyStartMerge ==
    /\ pass_result = "Ok"
    /\ Len(applied) < MaxPasses
    /\ Let(start_merge(tree), LAMBDA r :
           /\ tree' = r.module
           /\ pass_result' = (IF r.tag = "Ok" THEN "Ok" ELSE r.err))
    /\ prev_tree' = tree
    /\ applied' = Append(applied, "start_merge")
    /\ UNCHANGED <<src_text, sort_impl, prettyVars, parseVars, linkVars, utilVars>>

\* sort(&mut module, &mut linker)
ApplySort ==
    /\ pass_result = "Ok"
    /\ Len(applied) < MaxPasses
    /\ Let(sort(tree, sort_impl), LAMBDA r :
           /\ tree' = r.module
           /\ pass_result' = (IF r.tag = "Ok" THEN "Ok" ELSE r.err))
    /\ prev_tree' = tree
    /\ applied' = Append(applied, "sort")
    /\ UNCHANGED <<src_text, sort_impl, prettyVars, parseVars, linkVars, utilVars>>

\* The module of a run is what the parser makes of its text.
InitPass ==
    /\ src_text \in {ModuleText(sel) : sel \in Selections(MaxItems)}
    /\ tree = parse(src_text).node
    /\ prev_tree = NoNode /\ applied = <<>> /\ pass_result = "Ok"
    /\ sort_impl \in SortImpls
    /\ ParseIdle /\ LinkIdle /\ UtilIdle /\ PrettyIdle

NextPass == ApplyStartMerge \/ ApplySort

SpecPass == InitPass /\ [][NextPass]_vars

-----------------------------------------------------------------------------
(* The features called on a parsed module, or on one of its child nodes,    *)
(* with a linker over a MockLoader: link_raw one feature at a time.          *)

\* The files of the MockLoader of the feature runs: the raw file of the
\* data_import test, a raw file with a newline, and a module.
FeatureFiles ==
    [path \in {<<"1">>, <<"2">>, <<"3">>} |->
        IF path = <<"1">> THEN Chars("AB")
        ELSE IF path = <<"2">> THEN Chars("J\n~")
        ELSE Chars("(module (func $c))")]

\* The memory declarations, data offsets and payloads of the size_adjust runs.
MemoryForms == <<"", " (memory $x)", " (memory $x 7 9)">>
OffsetForms ==
    <<"", " (i32.const 0)", " (i32.const 65535)", " (offset (i32.const 65536))",
      " (i32.const 16777215)", " (offset (i32.const 16777216))">>
PayloadForms == <<"", " \"1\"", " \"12\" \"\\00\"">>

\* (module <memory> (data <offset> <payload>))
SizeText(memory, offset, payload) ==
    Chars("(module") \o Chars(memory) \o Chars(" (data") \o Chars(offset)
        \o Chars(payload) \o Chars("))")

SizeTexts ==
    {SizeText(MemoryForms[i], OffsetForms[j], PayloadForms[k]) :
        i \in 1..Len(MemoryForms), j \in 1..Len(OffsetForms), k \in 1..Len(PayloadForms)}

\* The modules of the tests of size_adjust.rs (with offsets in place of long
\* payloads) and variations of them.
SizeAdjustTexts ==
    {Chars("(module (memory $x))"),
     Chars("(module (memory $x) (data (memory $x) (offset (i32.const 65534)) \"123\"))"),
     Chars("(module (memory $x) (data (memory $x) (i32.const 65534) \"123\"))"),
     Chars("(module (memory $x) (data \"abcd\"))"),
     Chars("(module (memory $x) (data (i32.const 65536) \"1\"))"),
     Chars("(module (memory 1) (data (i32.const 65534) \"\\ff\\ff\"))"),
     Chars("(module (data (i32.const 16777215) \"1\") (memory) (data (offset (i32.const 3)) \"\\00\\01\"))"),
     Chars("(module (memory $x) (data (memory $x)) (data (offset)))"),
     Chars("(module (data (offset (nop)) \"a\"))"),
     Chars("(module (data (i32.const x) \"a\") (func $f))"),
     Chars("(module (func $f) (data \"abc\"))"),
     Chars("(module (memory) (data (i32.const)))"),
     Chars("(module (memory) (data (offset x) \"a\"))"),
     Chars("(module (memory) (data (i32.const 0) \"") \o <<E_ACUTE>> \o Chars("x\"))")}

\* The modules of the tests of numerals.rs and variations of them.
NumeralsTexts ==
    {Chars("(module (data (i32.const 0x1_0) \"lol\"))"),
     Chars("(module (data (i32.const 0b1000_0001) \"lol\"))"),
     Chars("(module (i64.const 0x7fff_ffff_ffff_ffff) (i64.const 0b0))"),
     Chars("(module (i64.const 0x8000000000000000))"),
     Chars("(module (i32.const 0x-1))"),
     Chars("(module (i32.const 0x+1f))"),
     Chars("(module (i32.const 0xg))"),
     Chars("(module 0xFF (func 0b2))"),
     Chars("(module (i32.const 0x) (i32.const 0b))"),
     Chars("(module offset=0x10 0b_1 (f 0x0b1 \"0x1\"))"),
     Chars("(func 0x1f)")}

\* The module of the test of data_import.rs and variations of it.
DataImportTexts ==
    {Chars("(module (data (i32.const 0) (import \"1\" (raw))))"),
     Chars("(module (data (import \"1\" (raw)) (import \"2\" (raw))))"),
     Chars("(module (data (import \"2\" (raw))) (func (data (import \"1\" (raw)))) (data \"x\" (import \"1\" (raw))))"),
     Chars("(module (data (import x (raw))))"),
     Chars("(module (data (import \"2\" (raw))) (data (import \"9\" (raw))))"),
     Chars("(module (memory $m) (data (i32.const 65534) (import \"1\" (raw))))")}

\* The modules of the tests of constexpr.rs (the floats with integral
\* values) and variations of them.
ConstexprTexts ==
    {Chars("(module (data (i64.constexpr (i64.add (i64.const 8) (i64.const 4))) \"lol\"))"),
     Chars("(module (f32.constexpr (f32.add (f32.const 8) (f32.const 4))))"),
     Chars("(module (f64.constexpr (f64.add (f64.const 8) (f64.const 4))))"),
     Chars("(module (data (i32.constexpr (i32.add (i32.const 8) (i32.const 4))) \"lol\"))"),
     Chars("(module (global $OTHER i32 (i32.constexpr (i32.const 7))) (global $DATA i32 (i32.const 8)) (data (i32.constexpr (i32.add (global.get $DATA) (i32.const 4))) \"lol\"))"),
     Chars("(module (i32.constexpr (global.get $B)) (global $A i32 (i32.const 1)) (global $B i32 (i32.const 2)))"),
     Chars("(module (func (global $N i32 (i32.const 1))) (i32.constexpr (global.get $N)))"),
     Chars("(module (global $G i32 (i32.constexpr (i32.const 7))) (i32.constexpr (global.get $G)))"),
     Chars("(module (v128.constexpr (i32.const 1)))"),
     Chars("(module (i32.constexpr (i32.const 1)) (i32.constexpr))"),
     Chars("(module (i32.constexpr (i32.bogus 1)))"),
     Chars("(module (i32.constexpr (i32.const 1) (v128.constexpr (nop))) (i64.constexpr (i64.const 2)))"),
     Chars("(module (func (i32.constexpr (i32.const -5)) (i32.constexpr (i32.const 1) (f32.constexpr (f32.const 2)))))"),
     Chars("(module (i32.store offset=(i32.constexpr (i32.add (i32.const 8) (i32.const 4))) (i32.const 4)))"),
     Chars("(module (i32.store offset=16 (i32.const 4)) (i32.load offset= (i32.const 0)))"),
     Chars("(module (i32.load offset=(i32.constexpr))"),
     Chars("(module (i32.constexpr (i32.const 3)) (i32.store8 offset=(i32.const\"\"))")}

\* Roots that are no top-level module, and a module that holds a module.
ShapeTexts ==
    {Chars("(func $a)"),
     Chars("(data (import \"1\" (raw)))"),
     Chars("(module (module (import \"3\" (file)) (data (import \"1\" (raw))) (memory) (start $a) (start $b) (i32.constexpr (i32.const 1)) (func (import \"m\" \"f\"))))")}

FeatureTexts ==
    SizeTexts \cup SizeAdjustTexts \cup NumeralsTexts \cup DataImportTexts
        \cup ConstexprTexts \cup ShapeTexts

\* The features of main.rs
AllFeatures ==
    {"import", "sort", "size_adjust", "start_merge", "data_import", "constexpr", "numerals"}

\* A feature of main.rs applied to a node with the linker's state.  The
\* result is [tag, err, module, ledger, log].
call_feature(f, m, ld, ledger, log, impl, outcome) ==
    IF f \in {"import", "start_merge", "sort"}
    THEN apply_feature(f, m, ld, ledger, log, impl)
    ELSE IF f = "data_import"
    THEN Let(data_import(m, ld, log), LAMBDA r :
         [tag |-> r.tag, err |-> r.err, module |-> r.module,
          ledger |-> ledger, log |-> r.log])
    ELSE Let(IF f = "size_adjust" THEN size_adjust(m)
             ELSE IF f = "numerals" THEN numerals(m)
             ELSE constexpr(m, outcome), LAMBDA r :
         [tag |-> r.tag, err |-> r.err, module |-> r.module,
          ledger |-> ledger, log |-> log])

\* Linker::link_raw up to the call of link_module: Parser::new(content).parse()?
ParseSource ==
    /\ tree = NoNode /\ applied = <<>> /\ pass_result = "Ok"
    /\ Let(parse(src_text), LAMBDA p :
           /\ tree' = (IF p.tag = "Ok" THEN p.node ELSE NoNode)
           /\ pass_result' = (IF p.tag = "Ok" THEN "Ok"
                              ELSE IF p.tag = "Err" THEN p.err ELSE p.tag))
    /\ UNCHANGED <<src_text, prev_tree, applied, sort_impl, prettyVars, parseVars, linkVars, utilVars>>

\* The caller takes the i-th item of the parsed root, a node, as the node it
\* hands to the features.
TakeChild(i) ==
    /\ tree # NoNode /\ applied = <<>> /\ pass_result = "Ok"
    /\ tree.depth = 0
    /\ i \in 1..Len(tree.items)
    /\ is_node(tree.items[i])
    /\ tree' = tree.items[i].node
    /\ UNCHANGED <<src_text, prev_tree, applied, pass_result, sort_impl, prettyVars, parseVars,
                   linkVars, utilVars>>

\* feature(&mut module, self) for a feature of main.rs
CallFeature(f) ==
    /\ tree # NoNode /\ pass_result = "Ok"
    /\ Len(applied) < MaxPasses
    /\ \E outcome \in DanglingOutcomes :
          Let(call_feature(f, tree, loader, loaded_modules, raw_loads, sort_impl, outcome),
              LAMBDA r :
              /\ tree' = r.module
              /\ pass_result' = (IF r.tag = "Ok" THEN "Ok"
                                 ELSE IF r.tag = "Err" THEN r.err ELSE r.tag)
              /\ loaded_modules' = r.ledger
              /\ raw_loads' = r.log)
    /\ prev_tree' = tree
    /\ applied' = Append(applied, f)
    /\ UNCHANGED <<src_text, sort_impl, prettyVars, parseVars, utilVars, loader, features, module,
                   fidx, lphase, error, invoked, last_load, links, calls>>

InitFeat ==
    /\ src_text \in FeatureTexts
    /\ tree = NoNode /\ prev_tree = NoNode /\ applied = <<>> /\ pass_result = "Ok"
    /\ loader = MockLoader(FeatureFiles)
    /\ loaded_modules = <<>> /\ features = <<>>
    /\ module = NoNode /\ fidx = 0 /\ lphase = "off" /\ error = ""
    /\ invoked = <<>> /\ raw_loads = <<>> /\ last_load = NoResult
    /\ links = 0 /\ calls = 0
    /\ sort_impl \in SortImpls
    /\ ParseIdle /\ UtilIdle /\ PrettyIdle

NextFeat ==
    \/ ParseSource
    \/ \E i \in 1..MaxItems : TakeChild(i)
    \/ \E f \in AllFeatures : CallFeature(f)

SpecFeat == InitFeat /\ [][NextFeat]_vars

\* C5: round trip.  Whenever a text the parser accepted has been serialized
\* to s1 and s1 has been parsed again, that parse succeeded and its
\* serialization is s1, character for character.
RoundTripFixedPoint ==
    pphase = "reparsed" =>
        /\ reparsed.tag = "Ok"
        /\ Display(reparsed.node) = s1

\* C5 witness: an accepted text holding a string literal with an escaped
\* quote has gone through the round trip, and s1 differs from the text.
RoundTripWitness ==
    /\ pphase = "reparsed"
    /\ s1 # input
    /\ \E i \in 1..Len(parsed.node.items) :
          /\ is_attribute(parsed.node.items[i])
          /\ parsed.node.items[i].attr = <<"\"", "\\", "\"", "\"">>

-----------------------------------------------------------------------------
(* Properties of the linker runs (SpecLink) *)

\* The files and the expected result of the tests dedupe_imports and
\* cascade_imports of import.rs.
DedupeEntry == Chars("(module (import \"1\" (file)) (import \"1\" (file)) (func $a) (func $b))")
DedupeImported == Chars("(module (func $c) (func $d))")
DedupeExpected == Chars("(module (func $a) (func $b) (func $c) (func $d))")
CascadeEntry == Chars("(module (import \"1\" (file)) (func $a) (func $b))")
CascadeImported == Chars("(module (import \"2\" (file)) (func $c) (func $d))")
CascadeExpected == Chars("(module (func $a) (func $b) (func $c) (func $d) (func $e))")

\* The text the loader of the run holds for a path.
file_text(ld, path) == load_raw(ld, path).contents

\* The run is the first link_file("0") of a new linker on which load_module
\* has not been called directly, with the two files given.
FirstLinkOf(entry, second) ==
    /\ links = 1 /\ calls = 0
    /\ file_text(loader, <<"0">>) = entry
    /\ file_text(loader, <<"1">>) = second

\* C1: the features invoked so far are the first registered features, in
\* registration order; every feature but the last invoked one returned Ok;
\* when the last invoked one returned an error, the link has failed with that
\* error and holds no module; a link that returned a module invoked every
\* feature and each returned Ok.
LinkOrderFailFast ==
    /\ Len(invoked) <= Len(features)
    /\ \A i \in 1..Len(invoked) : invoked[i].feature = features[i]
    /\ \A i \in 1..(Len(invoked) - 1) : invoked[i].tag = "Ok"
    /\ \A i \in 1..Len(invoked) :
          invoked[i].tag = "Err" =>
              /\ i = Len(invoked)
              /\ lphase = "failed"
              /\ error = invoked[i].err
              /\ module = NoNode
    /\ lphase = "done" =>
          /\ Len(invoked) = Len(features)
          /\ \A i \in 1..Len(invoked) : invoked[i].tag = "Ok"

\* C1 witness: the second of three features failed, the third was not invoked.
LinkOrderFailFastWitness ==
    /\ lphase = "failed"
    /\ Len(features) = 3
    /\ Len(invoked) = 2
    /\ invoked[1].tag = "Ok"
    /\ invoked[2].tag = "Err"

\* C2: a direct load_module call whose path canonicalizes to an identity the
\* ledger already held returned the empty placeholder module without a raw
\* load; any other call raw-loaded the file and, when that succeeded, recorded
\* the identity.
DedupByCanonicalIdentity ==
    last_load.tag = "Called" =>
        IF canonical_path(loader, last_load.path) \in last_load.ledger_before
        THEN /\ ~last_load.raw_loaded
             /\ last_load.res.tag = "Ok"
             /\ last_load.res.node = Node(NAME_MODULE, 0, <<>>)
        ELSE /\ last_load.raw_loaded
             /\ load_raw(loader, last_load.path).tag = "Ok" =>
                    canonical_path(loader, last_load.path) \in DOMAIN loaded_modules

\* C3: the first link, with only the import feature, of the entry file of the
\* test dedupe_imports returns a module that serializes with the items of the
\* imported file once, after the entry file's own items.
DedupeImportsOnce ==
    ( /\ lphase = "done"
      /\ features = <<"import">>
      /\ FirstLinkOf(DedupeEntry, DedupeImported) )
    => Display(module) = DedupeExpected

\* The files the import feature of the first link raw-loaded.
ImportedPaths == {raw_loads[k] : k \in 2..Len(raw_loads)}

\* The items of a file as the parser reads them.
ItemsOfFile(path) == parse_contents(file_text(loader, path)).node.items

\* C4: when the last feature invoked was import and it returned Ok, no direct
\* child of the module is a file-import directive, and (on a first link
\* without direct load_module calls) every item of every file import loaded
\* that is no directive is an item of the module; the first link, with only
\* the import feature, of the chain of the test cascade_imports returns the
\* declarations of all three files.
ImportLeavesNoDirective ==
    /\ ( /\ Len(invoked) > 0
         /\ invoked[Len(invoked)].feature = "import"
         /\ invoked[Len(invoked)].tag = "Ok" )
       => /\ \A i \in 1..Len(module.items) : ~is_file_import_item(module.items[i])
          /\ (links = 1 /\ calls = 0) =>
                \A path \in ImportedPaths :
                    \A j \in 1..Len(ItemsOfFile(path)) :
                        \/ is_file_import_item(ItemsOfFile(path)[j])
                        \/ \E i \in 1..Len(module.items) :
                              module.items[i] = ItemsOfFile(path)[j]
    /\ ( /\ lphase = "done"
         /\ features = <<"import">>
         /\ FirstLinkOf(CascadeEntry, CascadeImported) )
       => Display(module) = CascadeExpected

\* C4 witness: the chain 0 imports 1 imports 2 has been linked with the import
\* feature: three files were raw-loaded and the module holds the tombstones of
\* two directives.
ImportLeavesNoDirectiveWitness ==
    /\ lphase = "done"
    /\ features = <<"import">>
    /\ raw_loads = << <<"0">>, <<"1">>, <<"2">> >>
    /\ Cardinality({i \in 1..Len(module.items) : is_nothing(module.items[i])}) = 2
    /\ Display(module) = CascadeExpected

RECURSIVE Serialization(_)
RECURSIVE SerializationOfItems(_)
\* The serialization the specification gives: " " and the serialization of
\* the item, for each item that is not Nothing.
SerializationOfItems(items) ==
    IF Len(items) = 0 THEN <<>>
    ELSE (IF is_nothing(items[1]) THEN <<>>
          ELSE IF is_attribute(items[1]) THEN <<" ">> \o items[1].attr
          ELSE <<" ">> \o Serialization(items[1].node))
         \o SerializationOfItems(Tail(items))
Serialization(node) ==
    <<"(">> \o node.name \o SerializationOfItems(node.items) \o <<")">>

\* C6: the module of a link serializes as "(" name, then " " and the item for
\* each item that is not Nothing, then ")".
DisplayOmitsNothing ==
    lphase \in {"linking", "done"} => Display(module) = Serialization(module)

-----------------------------------------------------------------------------
(* Properties of the passes (SpecPass) *)

RECURSIVE NestedAt(_, _)
\* Every node of the tree under node has its nesting depth as depth, when
\* node itself is nested d deep.
NestedAt(node, d) ==
    /\ node.depth = d
    /\ \A i \in 1..Len(node.items) :
          is_node(node.items[i]) => NestedAt(node.items[i].node, d + 1)

\* C7: in the parsed tree and after every pass, every node's depth is its
\* nesting depth, the root's being 0.
DepthIsNestingDepth == NestedAt(tree, 0)

LastPass == applied[Len(applied)]

\* The positions of the direct child nodes of a module with, or without, a
\* node named import in their subtree.
WithImport(m) ==
    {i \in 1..Len(m.items) : is_node(m.items[i]) /\ has_import_node(m.items[i].node)}
WithoutImport(m) ==
    {i \in 1..Len(m.items) : is_node(m.items[i]) /\ ~has_import_node(m.items[i].node)}

\* The items of m at the positions in S, in their order in m.
ItemsAt(m, S) == SelectSeq([i \in 1..Len(m.items) |-> IF i \in S THEN <<m.items[i]>> ELSE <<>>],
                           LAMBDA x : Len(x) > 0)

\* C8: after sort, every direct child node with an import in its subtree
\* comes before every direct child node without one, and each of the two
\* groups is in the order it had before the pass.
SortIsStablePartition ==
    (Len(applied) > 0 /\ LastPass = "sort" /\ pass_result = "Ok") =>
        /\ \A i \in WithoutImport(tree) : \A j \in WithImport(tree) : j < i
        /\ ItemsAt(tree, WithImport(tree)) = ItemsAt(prev_tree, WithImport(prev_tree))
        /\ ItemsAt(tree, WithoutImport(tree)) = ItemsAt(prev_tree, WithoutImport(prev_tree))

\* How often item x occurs among the items of m.
Occurrences(m, x) == Cardinality({i \in 1..Len(m.items) : m.items[i] = x})

\* C9: sort leaves the module's name and depth alone and its items a
\* permutation of what they were, and a sort right after a sort changes
\* nothing.
SortIdempotentPermutation ==
    /\ (Len(applied) > 0 /\ LastPass = "sort" /\ pass_result = "Ok") =>
          /\ tree.name = prev_tree.name
          /\ tree.depth = prev_tree.depth
          /\ Len(tree.items) = Len(prev_tree.items)
          /\ \A i \in 1..Len(tree.items) :
                Occurrences(tree, tree.items[i]) = Occurrences(prev_tree, tree.items[i])
    /\ ( /\ Len(applied) > 1
         /\ LastPass = "sort"
         /\ applied[Len(applied) - 1] = "sort" )
       => /\ pass_result = "Ok"
          /\ tree = prev_tree

\* C9 witness: a second sort in a row has run on a module that holds an
\* attribute among its items, and the first sort had moved an item.
SortIdempotentPermutationWitness ==
    /\ applied = <<"sort", "sort">>
    /\ pass_result = "Ok"
    /\ \E i \in 1..Len(tree.items) : is_attribute(tree.items[i])
    /\ tree.items # parse(src_text).node.items
    /\ \E i \in WithImport(tree) : \E j \in WithoutImport(tree) : i < j

\* The module of the test simple_merge of start_merge.rs and its expected
\* result.
SimpleMergeInput == Chars("(module (func $t1) (start $t1) (func $t2) (start $t2))")
SimpleMergeExpected ==
    Chars("(module (func $t1) (func $t2) (func $_swl_start_merger (call $t1) (call $t2)) (start $_swl_start_merger))")

\* The pieces of the text of the merger function and the start directive.
MergerOpening == Chars(" (func $_swl_start_merger")
CallOpening == Chars(" (call ")
MergerClosing == Chars(") (start $_swl_start_merger))")

\* The start directives among the items of a module, in order.
StartDirectives(m) == SelectSeq(m.items, is_start_item)

\* The items of a module that are no tombstone and no start directive, in
\* order.
RemainingItems(m) ==
    SelectSeq(m.items, LAMBDA x : ~is_nothing(x) /\ ~is_start_item(x))

\* The positions of the `$name` attributes and of the numeric attributes of a
\* directive.
NamedAt(node) ==
    {i \in 1..Len(node.items) :
        /\ is_attribute(node.items[i])
        /\ Len(node.items[i].attr) > 0
        /\ node.items[i].attr[1] = "$"}
NumericAt(node) ==
    {i \in 1..Len(node.items) :
        /\ is_attribute(node.items[i])
        /\ Len(node.items[i].attr) > 0
        /\ \A k \in 1..Len(node.items[i].attr) : node.items[i].attr[k] \in DigitChars}

Lowest(S) == CHOOSE i \in S : \A j \in S : i <= j

\* The id of a directive: its `$name` attribute if it has one, else its
\* numeric attribute.
DirectiveId(node) ==
    IF NamedAt(node) # {} THEN node.items[Lowest(NamedAt(node))].attr
    ELSE node.items[Lowest(NumericAt(node))].attr

\* The serialization of a module with two or more start directives after
\* start_merge: the remaining items, the merger function with one call for
\* each directive in order, and one start directive.
MergedSerialization(m) ==
    <<"(">> \o m.name \o SerializationOfItems(RemainingItems(m))
        \o MergerOpening
        \o Join([k \in 1..Len(StartDirectives(m)) |->
                    CallOpening \o DirectiveId(StartDirectives(m)[k].node) \o <<")">>],
                <<>>)
        \o MergerClosing

\* C10: after start_merge on a module with two or more start directives that
\* each have an id, the pass has succeeded; the items that are no tombstone
\* are the remaining items of the module in their order, then one func, then
\* the only start directive; and the module serializes as the remaining
\* items, (func $_swl_start_merger (call id1) ... (call idN)) with the ids in
\* the order of the directives, and (start $_swl_start_merger).  For the
\* module of the test simple_merge the serialization is the one of the test.
StartMergeMerges ==
    /\ ( /\ Len(applied) > 0
         /\ LastPass = "start_merge"
         /\ Len(StartDirectives(prev_tree)) >= 2
         /\ \A k \in 1..Len(StartDirectives(prev_tree)) :
               NamedAt(StartDirectives(prev_tree)[k].node)
                   \cup NumericAt(StartDirectives(prev_tree)[k].node) # {} )
       => /\ pass_result = "Ok"
          /\ Len(StartDirectives(tree)) = 1
          /\ is_start_item(tree.items[Len(tree.items)])
          /\ tree.items[Len(tree.items) - 1].node.name = NAME_FUNC
          /\ RemainingItems(tree) =
                Append(RemainingItems(prev_tree), tree.items[Len(tree.items) - 1])
          /\ Display(tree) = MergedSerialization(prev_tree)
    /\ ( /\ applied = <<"start_merge">>
         /\ src_text = SimpleMergeInput )
       => Display(tree) = SimpleMergeExpected

\* C10 witness: start_merge has merged the two directives of the module of
\* the test simple_merge.
StartMergeMergesWitness ==
    /\ applied = <<"start_merge">>
    /\ src_text = SimpleMergeInput
    /\ pass_result = "Ok"
    /\ Len(tree.items) = 6
    /\ is_nothing(tree.items[2]) /\ is_nothing(tree.items[4])

\* C11: after start_merge on a module with no or exactly one start directive
\* among its items, wherever that directive stands, the pass has succeeded
\* and the module serializes as it did before the pass.
StartMergeKeepsSingleStart ==
    ( /\ Len(applied) > 0
      /\ LastPass = "start_merge"
      /\ Len(StartDirectives(prev_tree)) <= 1 )
    => /\ pass_result = "Ok"
       /\ Display(tree) = Display(prev_tree)

-----------------------------------------------------------------------------
(* The string lengths size_adjust works with: interpreted_string_length on   *)
(* string contents, and on the strings data_import makes of raw bytes.       *)

\* Most units (plain characters or escapes) of a string content, and most
\* bytes of a raw file.
MaxUnits == 3

\* The hex digits of the escapes.
HexDigitChars ==
    {"0", "1", "2", "3", "4", "5", "6", "7", "8", "9", "a", "b", "c", "d", "e", "f"}

\* Every escape of a backslash and two hex digits.
HexEscapes == {<<"\\", h1, h2>> : h1, h2 \in HexDigitChars}

\* The units longer contents are made of: plain characters, hex escapes with
\* digits and letters in either place, and a single-letter escape.
SampleUnits ==
    {<<"a">>, <<"7">>, <<"\\", "0", "0">>, <<"\\", "0", "a">>, <<"\\", "a", "0">>,
     <<"\\", "f", "f">>, <<"\\", "9", "f">>, <<"\\", "n">>}

\* The string contents of the runs: every single hex escape, and every
\* sequence of at most n sample units.
LiteralTexts(n) ==
    HexEscapes \cup {Join(us, <<>>) : us \in SeqsUpTo(SampleUnits, n)}

\* The raw files of the runs: every single byte, and every sequence of at
\* most n sample bytes.
RawDatas(n) ==
    {<<b>> : b \in 0..255} \cup SeqsUpTo({0, 10, 65, 160, 255}, n)

\* The encoding step of data_import on the bytes of a raw file.
Escape ==
    /\ uphase = "bytes"
    /\ literal' = escaped_data(raw_data)
    /\ uphase' = "text"
    /\ UNCHANGED <<raw_data, measured, parseVars, linkVars, passVars, sort_impl, prettyVars>>

\* interpreted_string_length(&s[1..s.len() - 1]) as size_adjust calls it
Measure ==
    /\ uphase = "text"
    /\ measured' = interpreted_string_length(literal)
    /\ uphase' = "measured"
    /\ UNCHANGED <<raw_data, literal, parseVars, linkVars, passVars, sort_impl, prettyVars>>

InitUtil ==
    /\ \/ /\ uphase = "bytes"
          /\ raw_data \in RawDatas(MaxUnits)
          /\ literal = <<>>
       \/ /\ uphase = "text"
          /\ raw_data = <<>>
          /\ literal \in LiteralTexts(MaxUnits)
    /\ measured = NoResult
    /\ ParseIdle /\ LinkIdle /\ PassIdle /\ PrettyIdle
    /\ sort_impl = "insertion_sort_shift_left"

NextUtil == Escape \/ Measure

SpecUtil == InitUtil /\ [][NextUtil]_vars

RECURSIVE UnitsFrom(_, _)
\* The number of units of s from character i on, when s is made of plain
\* characters and escapes of a backslash and two hex digits from there on;
\* -1 when it is not.
UnitsFrom(s, i) ==
    IF i > Len(s) THEN 0
    ELSE IF s[i] # "\\"
         THEN (IF UnitsFrom(s, i + 1) < 0 THEN -1 ELSE 1 + UnitsFrom(s, i + 1))
    ELSE IF i + 2 <= Len(s) /\ s[i + 1] \in HexDigitChars /\ s[i + 2] \in HexDigitChars
         THEN (IF UnitsFrom(s, i + 3) < 0 THEN -1 ELSE 1 + UnitsFrom(s, i + 3))
    ELSE -1

\* C13: for a string made of k plain characters and m escapes of a backslash
\* and two hex digits, interpreted_string_length returns k + m; for the
\* string data_import makes of n bytes it returns n.
InterpretedLengthCountsUnits ==
    uphase = "measured" =>
        /\ UnitsFrom(literal, 1) >= 0 =>
               measured = [tag |-> "Ok", count |-> UnitsFrom(literal, 1)]
        /\ Len(raw_data) > 0 =>
               measured = [tag |-> "Ok", count |-> Len(raw_data)]

\* The feature called last.
LastFeature == applied[Len(applied)]

\* A feature was just called on a top-level module.
CalledOnModule(f) ==
    /\ Len(applied) > 0
    /\ LastFeature = f
    /\ is_module(prev_tree)

\* (i32.const N) with N an unsigned number
IsConstOf(node) ==
    /\ node.name = NAME_I32_CONST
    /\ Len(node.items) = 1
    /\ is_attribute(node.items[1])
    /\ parses_as_usize(node.items[1].attr)

\* The offset nodes of a data segment, (offset ..) and (i32.const ..).
OffsetNodes(data_seg) == SelectSeq(immediate_node_iter(data_seg), is_offset_node)

\* The data segment carries no offset, (i32.const N) or (offset (i32.const N)).
HasPlainOffset(data_seg) ==
    \/ Len(OffsetNodes(data_seg)) = 0
    \/ IsConstOf(OffsetNodes(data_seg)[1])
    \/ /\ OffsetNodes(data_seg)[1].name = NAME_OFFSET
       /\ Len(OffsetNodes(data_seg)[1].items) = 1
       /\ is_node(OffsetNodes(data_seg)[1].items[1])
       /\ IsConstOf(OffsetNodes(data_seg)[1].items[1].node)

\* N of (offset (i32.const N)) or (i32.const N), 0 if absent.
PlainOffset(data_seg) ==
    IF Len(OffsetNodes(data_seg)) = 0 THEN 0
    ELSE IF OffsetNodes(data_seg)[1].name = NAME_OFFSET
    THEN usize_value(OffsetNodes(data_seg)[1].items[1].node.items[1].attr)
    ELSE usize_value(OffsetNodes(data_seg)[1].items[1].attr)

\* The string literals of a data segment, without their quotes.
Payloads(data_seg) ==
    Let(SelectSeq(immediate_attribute_iter(data_seg), is_string_literal), LAMBDA strs :
        [i \in 1..Len(strs) |-> SubSeq(strs[i], 2, Len(strs[i]) - 1)])

RECURSIVE SumOfUnits(_)
\* The bytes the payloads stand for: one per plain character and per escape.
SumOfUnits(payloads) ==
    IF Len(payloads) = 0 THEN 0
    ELSE UnitsFrom(payloads[1], 1) + SumOfUnits(Tail(payloads))

\* The direct-child data segments of a module.
DataSegments(m) ==
    SelectSeq(immediate_node_iter(m), LAMBDA n : n.name = NAME_DATA)

\* Every data segment has a plain offset and payloads of plain characters
\* and hex escapes.
HasPlainData(m) ==
    \A i \in 1..Len(DataSegments(m)) :
        /\ HasPlainOffset(DataSegments(m)[i])
        /\ \A j \in 1..Len(Payloads(DataSegments(m)[i])) :
               UnitsFrom(Payloads(DataSegments(m)[i])[j], 1) >= 0

\* offset + payload length of an active data segment, 0 for a passive one.
EndAddress(data_seg) ==
    IF is_active_data_segment(data_seg)
    THEN PlainOffset(data_seg) + SumOfUnits(Payloads(data_seg))
    ELSE 0

\* The maximum of the end addresses of the data segments, 0 without any.
MaxAddr(m) ==
    IF Len(DataSegments(m)) = 0 THEN 0
    ELSE CHOOSE a \in {EndAddress(DataSegments(m)[i]) : i \in 1..Len(DataSegments(m))} :
             \A i \in 1..Len(DataSegments(m)) : EndAddress(DataSegments(m)[i]) <= a

\* max(1, ceil(max_addr / 65536))
RequiredPages(max_addr) ==
    IF max_addr <= 65536 THEN 1 ELSE (max_addr + 65535) \div 65536

\* The memory nodes among the direct children of a module.
MemoryNodes(m) == SelectSeq(immediate_node_iter(m), is_memory_node)

\* The numeric attributes of a node, in order.
NumericAttributes(node) == SelectSeq(immediate_attribute_iter(node), parses_as_usize)

\* C12: after size_adjust on a top-level module with a direct-child memory
\* node and plain data segments, the first numeric attribute of the memory
\* node is max(1, ceil(max_addr / 65536)) for the maximum max_addr of
\* offset + payload length over the active data segments.
SizeAdjustPageCount ==
    ( /\ CalledOnModule("size_adjust")
      /\ Len(MemoryNodes(prev_tree)) > 0
      /\ HasPlainData(prev_tree) )
    => /\ pass_result = "Ok"
       /\ Len(MemoryNodes(tree)) > 0
       /\ Len(NumericAttributes(MemoryNodes(tree)[1])) > 0
       /\ NumericAttributes(MemoryNodes(tree)[1])[1]
              = to_decimal(RequiredPages(MaxAddr(prev_tree)))

\* C14: size_adjust on a top-level module without a direct-child memory node
\* succeeds and leaves the tree unchanged, whatever the data segments hold.
SizeAdjustNoMemoryNoOp ==
    ( /\ CalledOnModule("size_adjust")
      /\ Len(MemoryNodes(prev_tree)) = 0 )
    => /\ pass_result = "Ok"
       /\ tree = prev_tree

\* A node named <type>.constexpr with a type of i32, i64, f32, f64.
IsTypedConstexpr(node) ==
    /\ is_constexpr_node(node)
    /\ split_nth(node.name, ".", 0) \in WasmTypes

\* The nodes below a node, without the node.
Descendants(node) == Tail(node_iter(node))

RECURSIVE FoldedFrom(_, _, _)
\* `after` is `before` with every <type>.constexpr node, wherever it stands,
\* named <type>.const at its position and depth and holding one attribute,
\* the formatted value of its child expression with the prelude, and with
\* every other node as it was.
FoldedFrom(before, after, prelude) ==
    IF IsTypedConstexpr(before)
    THEN /\ after.name = SubSeq(before.name, 1, Len(before.name) - 4)
         /\ after.depth = before.depth
         /\ folded_value(split_nth(before.name, ".", 0), before, prelude).tag = "Ok"
         /\ after.items
                = <<Attribute(folded_value(split_nth(before.name, ".", 0), before,
                                           prelude).value)>>
         /\ \A i \in 1..Len(Descendants(before)) :
                ~IsTypedConstexpr(Descendants(before)[i])
    ELSE /\ after.name = before.name
         /\ after.depth = before.depth
         /\ Len(after.items) = Len(before.items)
         /\ \A i \in 1..Len(before.items) :
                IF is_node(before.items[i])
                THEN /\ is_node(after.items[i])
                     /\ FoldedFrom(before.items[i].node, after.items[i].node, prelude)
                ELSE after.items[i] = before.items[i]

\* The module of the test simple_constexpr_i64 and what it is folded to.
SimpleConstexprI64 ==
    Chars("(module (data (i64.constexpr (i64.add (i64.const 8) (i64.const 4))) \"lol\"))")
SimpleConstexprI64Folded ==
    Chars("(module (data (i64.const 12) \"lol\"))")

\* C15: after constexpr succeeds on a top-level module every <type>.constexpr
\* node is the <type>.const node of its value at the same place, no node
\* named *.constexpr remains and every other node is unchanged; the module of
\* simple_constexpr_i64 becomes (module (data (i64.const 12) "lol")).
ConstexprFoldsInPlace ==
    /\ ( CalledOnModule("constexpr") /\ pass_result = "Ok" )
       => /\ FoldedFrom(prev_tree, tree, prelude_of(prev_tree))
          /\ ~has_constexprs(tree)
    /\ ( CalledOnModule("constexpr") /\ prev_tree = parse(SimpleConstexprI64).node )
       => /\ pass_result = "Ok"
          /\ tree = parse(SimpleConstexprI64Folded).node

\* The module of the test constexpr_offset and what it is expected to link to.
ConstexprOffset ==
    Chars("(module (i32.store offset=(i32.constexpr (i32.add (i32.const 8) (i32.const 4))) (i32.const 4)))")
ConstexprOffsetFolded ==
    Chars("(module (i32.store offset=12 (i32.const 4)))")

\* C16: linking the module of constexpr_offset from its source text with the
\* constexpr feature succeeds, and gives the module with the attribute
\* rewritten to offset=12 and the other items unchanged.
ConstexprOffsetLinks ==
    src_text = ConstexprOffset
    => /\ pass_result = "Ok"
       /\ ( Len(applied) > 0 /\ applied[1] = "constexpr" )
          => tree = parse(ConstexprOffsetFolded).node

\* The radix an attribute announces with its prefix: 16 for 0x, 2 for 0b, 0
\* without either.
PrefixRadix(attr) ==
    IF StartsWith(attr, <<"0", "x">>) THEN 16
    ELSE IF StartsWith(attr, <<"0", "b">>) THEN 2
    ELSE 0

\* The text after the two characters of the prefix, with every _ removed.
NumeralBody(attr) == without_underscores(SubSeq(attr, 3, Len(attr)))

\* The body is a numeral of the radix, one or more of its digits, with a value
\* that fits a signed 64-bit integer.
IsFittingNumeral(attr) ==
    /\ Len(NumeralBody(attr)) > 0
    /\ \A i \in 1..Len(NumeralBody(attr)) :
           to_digit(NumeralBody(attr)[i], PrefixRadix(attr)) >= 0
    /\ magnitude_le(magnitude_of(NumeralBody(attr), PrefixRadix(attr), <<>>),
                    I64_MAX_DIGITS)

\* The decimal text of the value of the body.
DecimalText(attr) ==
    format_i64([negative |-> FALSE,
                magnitude |-> magnitude_of(NumeralBody(attr), PrefixRadix(attr), <<>>)])

RECURSIVE HasBadNumeral(_)
\* Some attribute of the tree has a prefix and a body that is no fitting
\* numeral.
HasBadNumeral(node) ==
    \E i \in 1..Len(node.items) :
        IF is_attribute(node.items[i])
        THEN PrefixRadix(node.items[i].attr) # 0 /\ ~IsFittingNumeral(node.items[i].attr)
        ELSE is_node(node.items[i]) /\ HasBadNumeral(node.items[i].node)

RECURSIVE InDecimal(_)
\* The tree with every prefixed attribute replaced by the decimal text of its
\* value, and everything else as it is.
InDecimal(node) ==
    [node EXCEPT !.items =
        [i \in 1..Len(node.items) |->
            IF is_attribute(node.items[i])
            THEN (IF PrefixRadix(node.items[i].attr) # 0
                  THEN Attribute(DecimalText(node.items[i].attr))
                  ELSE node.items[i])
            ELSE IF is_node(node.items[i])
            THEN NodeItem(InDecimal(node.items[i].node))
            ELSE node.items[i]]]

\* C17: numerals replaces every attribute that begins with 0x or 0b and whose
\* body is a numeral of the radix fitting a signed 64-bit integer by the
\* decimal text of the value and leaves everything else unchanged, so that a
\* second run changes nothing; with any other body behind a prefix it fails
\* with InvalidNumericLiteral.
NumeralsToDecimal ==
    ( Len(applied) > 0 /\ LastFeature = "numerals" )
    => IF HasBadNumeral(prev_tree)
       THEN pass_result = "InvalidNumericLiteral"
       ELSE /\ pass_result = "Ok"
            /\ tree = InDecimal(prev_tree)
            /\ numerals(tree) = [tag |-> "Ok", err |-> "", module |-> tree]

\* An item shaped (import "<path>" (raw)).
IsRawImport(item) ==
    /\ is_node(item)
    /\ is_import_node(item.node)
    /\ is_string_literal(item.node.items[1].attr)

\* One quoted string of a backslash plus two lowercase hex digits per byte of
\* the contents, in byte order.
HexString(contents) ==
    <<"\"">>
        \o Join([k \in 1..Len(contents) |->
                    <<"\\", LowerHexDigits[(byte_of(contents[k]) \div 16) + 1],
                      LowerHexDigits[(byte_of(contents[k]) % 16) + 1]>>], <<>>)
        \o <<"\"">>

RECURSIVE RawImportsReplaced(_, _, _)
\* `after` is `before` with every raw import item of a data node replaced,
\* at its position, by the hex string of its file, and all else unchanged.
RawImportsReplaced(before, after, files) ==
    /\ after.name = before.name
    /\ after.depth = before.depth
    /\ Len(after.items) = Len(before.items)
    /\ \A i \in 1..Len(before.items) :
           IF before.name = NAME_DATA /\ IsRawImport(before.items[i])
           THEN /\ unquoted(before.items[i].node.items[1].attr) \in DOMAIN files
                /\ after.items[i]
                       = Attribute(HexString(
                             files[unquoted(before.items[i].node.items[1].attr)]))
           ELSE IF is_node(before.items[i])
           THEN /\ is_node(after.items[i])
                /\ RawImportsReplaced(before.items[i].node, after.items[i].node, files)
           ELSE after.items[i] = before.items[i]

\* C18: after data_import succeeds on a top-level module every raw import
\* item of every data node, also of one that holds several, is replaced at
\* its position by the hex string of the raw file, and all other items are
\* unchanged.
DataImportReplacesAll ==
    ( CalledOnModule("data_import") /\ pass_result = "Ok" )
    => RawImportsReplaced(prev_tree, tree, FeatureFiles)

\* The features that begin with the check of utils::is_module.
ShapeChecked == {"import", "data_import", "constexpr", "size_adjust", "start_merge", "sort"}

\* The error a feature returns from the check: the NotAModule of its error
\* type, and for data_import the message that names the condition.
NotAModuleError(f) ==
    IF f = "data_import"
    THEN "Data importer can only be applied to top-level module sexpr."
    ELSE "NotAModule"

\* The step in which feature f is called on the tree.
Calls(f) == applied' = Append(applied, f)

\* C19: import, data_import, constexpr, size_adjust, start_merge and sort,
\* called on a node that is not named module or not at depth 0, return the
\* NotAModule error and do nothing else: the tree stays as it is, no file is
\* loaded and the ledger of loaded modules is unchanged.
ShapeCheckComesFirst ==
    [][ \A f \in ShapeChecked :
            ( Calls(f) /\ (tree.name # NAME_MODULE \/ tree.depth # 0) )
            => /\ pass_result' = NotAModuleError(f)
               /\ tree' = tree
               /\ raw_loads' = raw_loads
               /\ loaded_modules' = loaded_modules ]_vars

\* A nested module that holds a file import, a raw import, a memory node,
\* start directives and a constexpr node has been handed to each of the six
\* features in some run; here to import, which was refused.
ShapeCheckComesFirstWitness ==
    /\ applied = <<"import">>
    /\ prev_tree.name = NAME_MODULE
    /\ prev_tree.depth = 1
    /\ \E i \in 1..Len(prev_tree.items) : is_file_import_item(prev_tree.items[i])
    /\ pass_result = "NotAModule"
    /\ raw_loads = <<>>

\* The ends of the prefixes of a text that are one form, with whitespace and
\* comments around it at most.
FormPrefixEnds(text) == {k \in 1..Len(text) : parse(SubSeq(text, 1, k)).tag = "Ok"}

\* The text begins with a form.
HasFirstForm(text) == FormPrefixEnds(text) # {}

\* The position of the closing parenthesis of the first form.
FirstFormEnd(text) == first_position(FormPrefixEnds(text))

\* The positions from pos on at which a block comment opened at pos ends.
CommentEnds(text, pos) == {q \in (pos + 2)..Len(text) : is_next(text, q, <<";", ")">>)}

RECURSIVE SkipTrivia(_, _)
\* The position after the whitespace, the line comments and the block
\* comments that stand at pos.
SkipTrivia(text, pos) ==
    IF pos > Len(text) THEN pos
    ELSE IF text[pos] \in WhitespaceChars THEN SkipTrivia(text, pos + 1)
    ELSE IF is_next(text, pos, <<";", ";">>) THEN SkipTrivia(text, eat_line(text, pos + 2))
    ELSE IF is_next(text, pos, <<"(", ";">>) /\ CommentEnds(text, pos) # {}
    THEN SkipTrivia(text, first_position(CommentEnds(text, pos)) + 2)
    ELSE pos

\* Input remains after the first form and the whitespace and comments that
\* follow it.
InputRemains(text) ==
    /\ HasFirstForm(text)
    /\ SkipTrivia(text, FirstFormEnd(text) + 1) <= Len(text)

\* C20: parse fails with StrayData exactly when input remains after the first
\* form and the whitespace and comments behind it, and returns the node of
\* the form when only whitespace and comments follow it.
StrayDataExactly ==
    pphase \in {"parsed", "serialized", "reparsed"} =>
        /\ parsed = Err("StrayData") <=> InputRemains(input)
        /\ ( HasFirstForm(input) /\ ~InputRemains(input) )
           => parsed = [tag |-> "Ok",
                        node |-> parse(SubSeq(input, 1, FirstFormEnd(input))).node]


RECURSIVE walker_yields(_)
\* Walker::next called until the stack is empty, on a tree the loop body
\* leaves as it is: the node on top is popped, its child nodes are pushed in
\* reverse order, and the node is yielded.  The top of the stack is its end.
walker_yields(stack) ==
    IF Len(stack) = 0 THEN <<>>
    ELSE Let(stack[Len(stack)], LAMBDA node :
         <<node>> \o walker_yields(SubSeq(stack, 1, Len(stack) - 1)
                                       \o Reverse(immediate_node_iter(node))))

\* Node::node_iter_mut
node_iter_mut(node) == walker_yields(<<node>>)

\* C22: node_iter_mut yields the nodes of a tree once each in the pre-order of
\* node_iter, and when the loop of process_constexpr replaces the items of
\* the node just yielded, the walker never goes on to a node that is no
\* longer part of the tree.
NodeIterMutSafeUnderFold ==
    /\ tree # NoNode => node_iter_mut(tree) = node_iter(tree)
    /\ CalledOnModule("constexpr")
       => /\ ~process_constexpr_node(prev_tree, prelude_of(prev_tree)).dangling
          /\ pass_result # "Crash"


\* The paths of the file-import directives among items, in order.
DirectivePaths(items) ==
    Let(SelectSeq(items, is_file_import_item), LAMBDA directives :
        [k \in 1..Len(directives) |-> unquoted(directives[k].node.items[1].attr)])

\* The files a file imports with its directives.
ImportsOfFile(path) ==
    IF \/ load_raw(loader, path).tag # "Ok"
       \/ parse_contents(file_text(loader, path)).tag # "Ok"
    THEN {}
    ELSE {DirectivePaths(ItemsOfFile(path))[k] :
             k \in 1..Len(DirectivePaths(ItemsOfFile(path)))}

RECURSIVE ImportClosure(_, _)
\* The files reached from the files of S in at most n imports.
ImportClosure(S, n) ==
    IF n = 0 THEN S
    ELSE ImportClosure(S \cup UNION {ImportsOfFile(path) : path \in S}, n - 1)

\* The declarations of a file: its items that are no file-import directive.
DeclarationsOf(path) ==
    IF \/ load_raw(loader, path).tag # "Ok"
       \/ parse_contents(file_text(loader, path)).tag # "Ok"
    THEN {}
    ELSE {ItemsOfFile(path)[j] : j \in
             {j \in 1..Len(ItemsOfFile(path)) : ~is_file_import_item(ItemsOfFile(path)[j])}}

\* What a directive for path contributes: the declarations of the file and of
\* everything it imports transitively.
ContributionOf(path) ==
    UNION {DeclarationsOf(p) : p \in ImportClosure({path}, Cardinality(DOMAIN loader.map))}

\* The items of the linked module that serialize.
LiveItems == SelectSeq(module.items, LAMBDA item : ~is_nothing(item))

\* The positions among the live items of what the k-th directive of the entry
\* file contributes and no earlier directive does.
BlockOf(k) ==
    Let(DirectivePaths(ItemsOfFile(<<"0">>)), LAMBDA directives :
        {p \in 1..Len(LiveItems) :
            /\ LiveItems[p] \in ContributionOf(directives[k])
            /\ \A j \in 1..(k - 1) : LiveItems[p] \notin ContributionOf(directives[j])})

\* The entry file of the run: (module (import X) (import Y) (func $a)) with
\* X importing a fourth file Z.
TransitiveEntry == Chars("(module (import \"1\" (file)) (import \"2\" (file)) (func $a))")

\* C23: after the first link with only the import feature, what each
\* directive of the entry file contributes (the declarations of the imported
\* file and of the files it imports transitively) stands as one contiguous
\* block, and the blocks follow the order of the directives; for
\* main = [import X, import Y, a], X = [import Z, c], Y = [d], Z = [e] the
\* declaration of Z stands before that of Y.
ImportSplicesResolvedBlocks ==
    ( /\ lphase = "done"
      /\ features = <<"import">>
      /\ loader.kind = "Mock"
      /\ links = 1 /\ calls = 0 )
    => /\ \A k \in 1..Len(DirectivePaths(ItemsOfFile(<<"0">>))) :
             /\ \A p, q \in BlockOf(k) : \A r \in p..q : r \in BlockOf(k)
             /\ \A j \in 1..(k - 1) : \A p \in BlockOf(j), q \in BlockOf(k) : p < q
       /\ file_text(loader, <<"0">>) = TransitiveEntry
          => Display(module) = Chars("(module (func $a) (func $c) (func $e) (func $d))")
                \/ Display(module) = Chars("(module (func $a) (func $e) (func $c) (func $d))")
                \/ Display(module) = Chars("(module (func $c) (func $e) (func $d) (func $a))")
                \/ Display(module) = Chars("(module (func $e) (func $c) (func $d) (func $a))")


\* The attributes of the nodes of a tree, in pre-order.
AttributesOf(node) ==
    UNION {{immediate_attribute_iter(node_iter(node)[i])[k] :
               k \in 1..Len(immediate_attribute_iter(node_iter(node)[i]))} :
           i \in 1..Len(node_iter(node))}

\* The length of the part of an attribute before its string literal, if any.
BareLength(attr) ==
    IF \E k \in 1..Len(attr) : attr[k] = "\""
    THEN first_position({k \in 1..Len(attr) : attr[k] = "\""}) - 1
    ELSE Len(attr)

\* A comment starts within the bare part of the attribute.
HoldsCommentStart(attr) ==
    \E k \in 1..BareLength(attr) :
        \/ is_next(SubSeq(attr, 1, BareLength(attr)), k, <<";", ";">>)
        \/ is_next(SubSeq(attr, 1, BareLength(attr)), k, <<"(", ";">>)

\* The node `a` with the single attribute `b`.
NodeAWithB == Node(<<"a">>, 0, <<Attribute(<<"b">>)>>)

\* C24: a bare attribute token ends at the first whitespace, `)` or comment
\* start: no attribute of a parsed tree holds `;;` or `(;` outside a string,
\* and `(a b;;c` followed by a newline and `)`, like `(a b(; c ;))`, parses
\* to node `a` with the single attribute `b`.
AttributeEndsAtComment ==
    pphase \in {"parsed", "serialized", "reparsed"} =>
        /\ parsed.tag = "Ok" => \A attr \in AttributesOf(parsed.node) : ~HoldsCommentStart(attr)
        /\ input = Chars("(a b;;c\n)") => parsed = [tag |-> "Ok", node |-> NodeAWithB]
        /\ input = Chars("(a b(; c ;))") => parsed = [tag |-> "Ok", node |-> NodeAWithB]


\* The direct-child items of a module that are `global` nodes holding no node
\* with a name ending in `.constexpr`, in the order of the module.
PlainGlobals(m) ==
    SelectSeq(m.items, LAMBDA item :
        /\ is_node(item)
        /\ item.node.name = Chars("global")
        /\ \A i \in 1..Len(node_iter(item.node)) :
               ~EndsWith(node_iter(item.node)[i].name, Chars(".constexpr")))

RECURSIVE JoinedLines(_)
\* The serializations of the items, one per line.
JoinedLines(items) ==
    IF Len(items) = 0 THEN <<>>
    ELSE IF Len(items) = 1 THEN Display(items[1].node)
    ELSE Display(items[1].node) \o <<"\n">> \o JoinedLines(Tail(items))

\* The prelude the pass is to use for a module, taken before any folding.
PreludeBeforeFolding(m) == JoinedLines(PlainGlobals(m))

RECURSIVE FoldedAgainst(_, _, _)
\* `after` is `before` with every typed constexpr node that stands in no
\* other one holding the value of its expression with the prelude, and with
\* everything else as it was.
FoldedAgainst(before, after, prelude) ==
    IF IsTypedConstexpr(before)
    THEN /\ folded_value(split_nth(before.name, ".", 0), before, prelude).tag = "Ok"
         /\ after.items
                = <<Attribute(folded_value(split_nth(before.name, ".", 0), before,
                                           prelude).value)>>
    ELSE /\ after.name = before.name
         /\ Len(after.items) = Len(before.items)
         /\ \A i \in 1..Len(before.items) :
                IF is_node(before.items[i])
                THEN /\ is_node(after.items[i])
                     /\ FoldedAgainst(before.items[i].node, after.items[i].node, prelude)
                ELSE after.items[i] = before.items[i]

\* The module of the test constexpr_with_global and what it is folded to.
ConstexprWithGlobal ==
    Chars("(module (global $OTHER i32 (i32.constexpr (i32.const 7))) (global $DATA i32 (i32.const 8)) (data (i32.constexpr (i32.add (global.get $DATA) (i32.const 4))) \"lol\"))")
ConstexprWithGlobalFolded ==
    Chars("(module (global $OTHER i32 (i32.const 7)) (global $DATA i32 (i32.const 8)) (data (i32.const 12) \"lol\"))")

\* A module whose second constexpr reads a global that holds a constexpr.
ConstexprReadsFoldedGlobal ==
    Chars("(module (global $G i32 (i32.constexpr (i32.const 7))) (i32.constexpr (global.get $G)))")

\* C25: the prelude of constexpr is the serializations, in order and one per
\* line, of the direct-child globals that hold no *.constexpr node, taken
\* from the module before any folding: whenever the pass returns Ok every
\* folded node holds the value of its expression against that prelude; the
\* module of constexpr_with_global folds with $DATA in the prelude and $OTHER
\* out of it; and a global whose initializer the pass has folded is still not
\* in the prelude of a later constexpr.
ConstexprPreludeFixed ==
    /\ ( CalledOnModule("constexpr") /\ pass_result = "Ok" )
       => FoldedAgainst(prev_tree, tree, PreludeBeforeFolding(prev_tree))
    /\ ( CalledOnModule("constexpr") /\ prev_tree = parse(ConstexprWithGlobal).node
         /\ pass_result # "Crash" )
       => /\ pass_result = "Ok"
          /\ Display(tree) = ConstexprWithGlobalFolded
    /\ ( CalledOnModule("constexpr") /\ prev_tree = parse(ConstexprReadsFoldedGlobal).node )
       => pass_result # "Ok"

\* C25 witness: constexpr has folded the module of constexpr_with_global, in
\* which a constexpr reads a global of the prelude and another global holds a
\* constexpr.
ConstexprPreludeFixedWitness ==
    /\ CalledOnModule("constexpr")
    /\ prev_tree = parse(ConstexprWithGlobal).node
    /\ Len(PlainGlobals(prev_tree)) = 1
    /\ pass_result = "Ok"
    /\ Display(tree) = ConstexprWithGlobalFolded


\* A start directive of the module has no identifiable id: no attribute that
\* starts with `$` and none that is an unsigned number.
HasStartWithoutId(m) ==
    \E k \in 1..Len(StartDirectives(m)) :
        /\ NamedAt(StartDirectives(m)[k].node) = {}
        /\ NumericAt(StartDirectives(m)[k].node) = {}

\* C26: start_merge on a top-level module of which some start directive has
\* no identifiable id fails with InvalidStartDirective, also when the module
\* has that one start directive only.
StartWithoutIdRejected ==
    ( /\ Len(applied) > 0
      /\ LastPass = "start_merge"
      /\ is_module(prev_tree)
      /\ HasStartWithoutId(prev_tree) )
    => pass_result = "InvalidStartDirective"


\* The errors Parser::parse is to fail with.
ParserErrors == {"UnexpectedEOF", "UnexpectedToken", "StrayData"}

\* C27: Parser::parse ends on every input text with a node or with one of the
\* errors UnexpectedEOF, UnexpectedToken and StrayData, also on a text that
\* ends inside a block comment, a string literal or a line comment.
ParseAlwaysReturns ==
    pphase \in {"parsed", "serialized", "reparsed"} =>
        \/ parsed.tag = "Ok"
        \/ parsed.tag = "Err" /\ parsed.err \in ParserErrors


\* The number of raw loads of a path so far.
RawLoadsOf(path) == Cardinality({k \in 1..Len(raw_loads) : raw_loads[k] = path})

\* The number of items of the linked module equal to an item.
CopiesOf(item) == Cardinality({i \in 1..Len(module.items) : module.items[i] = item})

\* The state part of C28, for a linker with a MockLoader.
MockLinkState ==
    /\ lphase # "hung"
    /\ \A path \in DOMAIN loader.map : RawLoadsOf(path) <= 1
    /\ ( lphase = "linking" /\ fidx = 0 /\ calls = 0 )
       => <<"0">> \in DOMAIN loaded_modules
    /\ ( lphase = "done" /\ features = <<"import">> )
       => \A path \in DOMAIN loader.map : \A item \in DeclarationsOf(path) :
              CopiesOf(item) <= 1

\* C28: with a MockLoader every link_file with the import feature ends, also
\* on a file that imports itself and on import cycles; the identity of the
\* entry file is in the ledger before the features run; no file of the loader
\* is raw-loaded twice; every file's declarations stand at most once in the
\* result; and no step takes an identity out of the ledger.
MockImportTerminates ==
    /\ [](loader.kind = "Mock" => MockLinkState)
    /\ [][loader.kind = "Mock"
            => \A key \in DOMAIN loaded_modules :
                  key \in DOMAIN loaded_modules' /\ loaded_modules'[key] = loaded_modules[key]]_vars

\* C28 witness: the cycle 0 -> 1 -> 0 has been linked with the import feature
\* from a MockLoader: both files were raw-loaded once and the result holds
\* the declarations of both.
MockImportTerminatesWitness ==
    /\ loader.kind = "Mock"
    /\ lphase = "done"
    /\ features = <<"import">>
    /\ raw_loads = << <<"0">>, <<"1">> >>
    /\ file_text(loader, <<"1">>) = Chars("(module (import \"0\" (file)) (func $c))")
    /\ Display(module) = Chars("(module (func $a) (func $b) (func $c))")


\* The i32.const node is `(i32.const)` without a value, or `(i32.const v)`
\* with an attribute v that is no unsigned decimal number.
IsMalformedConst(node) ==
    /\ node.name = Chars("i32.const")
    /\ \/ Len(node.items) = 0
       \/ is_attribute(node.items[1]) /\ ~parses_as_usize(node.items[1].attr)

\* The offset child of a data segment is malformed: `(offset)` without an
\* item, `(offset x)` with an item that is no node, `(offset (e))` with e not
\* i32.const, or a malformed i32.const node, in the offset node or in its
\* place.
HasMalformedOffset(data_seg) ==
    /\ Len(OffsetNodes(data_seg)) > 0
    /\ Let(OffsetNodes(data_seg)[1], LAMBDA offset_node :
           IF offset_node.name = Chars("offset")
           THEN \/ Len(offset_node.items) = 0
                \/ ~is_node(offset_node.items[1])
                \/ offset_node.items[1].node.name # Chars("i32.const")
                \/ IsMalformedConst(offset_node.items[1].node)
           ELSE IsMalformedConst(offset_node))

\* An attribute in quotes that holds a character outside ASCII.
IsNonAsciiLiteral(attr) ==
    /\ Len(attr) > 2
    /\ attr[1] = "\"" /\ attr[Len(attr)] = "\""
    /\ \E k \in 1..Len(attr) : attr[k] = E_ACUTE

\* A data segment with an offset child holds such a literal.
HasNonAsciiPayload(data_seg) ==
    /\ Len(OffsetNodes(data_seg)) > 0
    /\ \E k \in 1..Len(immediate_attribute_iter(data_seg)) :
           IsNonAsciiLiteral(immediate_attribute_iter(data_seg)[k])

\* C30: size_adjust on a top-level module with a direct-child data node whose
\* offset child is malformed, or which holds a string literal with a
\* character outside ASCII, returns an error, does not abort, and leaves the
\* tree unchanged.
MalformedOffsetIsError ==
    ( /\ CalledOnModule("size_adjust")
      /\ \E i \in 1..Len(DataSegments(prev_tree)) :
            \/ HasMalformedOffset(DataSegments(prev_tree)[i])
            \/ HasNonAsciiPayload(DataSegments(prev_tree)[i]) )
    => /\ pass_result \notin {"Ok", "Panic"}
       /\ tree = prev_tree


-----------------------------------------------------------------------------
(* pretty.rs: the tokenizer of the pretty-printer *)

\* enum Item of pretty.rs
LineComment(text) == [kind |-> "LineComment", text |-> text]
BlockComment(text) == [kind |-> "BlockComment", text |-> text]
Parens(items) == [kind |-> "Parens", items |-> items]
StringItem(text) == [kind |-> "String", text |-> text]
Literal(text) == [kind |-> "Literal", text |-> text]

\* Item::as_literal(..).is_some()
is_literal(item) == item.kind = "Literal"

RECURSIVE pretty_eat_whitespace(_, _)
\* pretty.rs Parser::eat_whitespace: skips whitespace characters only.
pretty_eat_whitespace(text, pos) ==
    IF pos <= Len(text) /\ text[pos] \in WhitespaceChars
    THEN pretty_eat_whitespace(text, pos + 1)
    ELSE pos

RECURSIVE parse_literal_end(_, _, _)
\* The loop of pretty.rs Parser::parse_literal: the position after the
\* literal.  Parentheses inside a literal are counted in level, and the
\* delimiters end the literal only at level 0.
parse_literal_end(text, pos, level) ==
    IF pos > Len(text) THEN pos
    ELSE IF /\ level = 0
            /\ \/ text[pos] \in WhitespaceChars
               \/ is_next(text, pos, <<"(", ";">>)
               \/ is_next(text, pos, <<";", ";">>)
               \/ is_next(text, pos, <<")">>)
         THEN pos
    ELSE parse_literal_end(text, pos + 1,
             level + (IF text[pos] = "(" THEN 1 ELSE 0)
                   - (IF text[pos] = ")" THEN 1 ELSE 0))

\* pretty.rs Parser::parse_literal
parse_literal(text, pos) ==
    Let(parse_literal_end(text, pos, 0), LAMBDA end :
        [tag |-> "Ok", text |-> SubSeq(text, pos, end - 1), pos |-> end])

RECURSIVE parse_string_end(_, _)
\* The loop of pretty.rs Parser::parse_string after the opening quote: the
\* position of the closing quote, or 0 when the loop never ends because no
\* quote follows (the loop has no end-of-input test).
parse_string_end(text, pos) ==
    IF is_next(text, pos, <<"\"">>) THEN pos
    ELSE IF pos > Len(text) THEN 0
    ELSE parse_string_end(text, pos + (IF text[pos] = "\\" THEN 2 ELSE 1))

\* pretty.rs Parser::parse_string: the text between the quotes.
parse_string(text, pos) ==
    Let(parse_string_end(text, pos + 1), LAMBDA end :
        IF end = 0 THEN Hang
        ELSE [tag |-> "Ok", text |-> SubSeq(text, pos + 1, end - 1), pos |-> end + 1])

RECURSIVE parse_linecomment_end(_, _)
\* The loop of pretty.rs Parser::parse_linecomment: the position of the
\* newline that ends the comment, or 0 when the loop never ends because no
\* newline follows.
parse_linecomment_end(text, pos) ==
    IF is_next(text, pos, <<"\n">>) THEN pos
    ELSE IF pos > Len(text) THEN 0
    ELSE parse_linecomment_end(text, pos + 1)

\* pretty.rs Parser::parse_linecomment: the text between ";;" and the newline.
parse_linecomment(text, pos) ==
    Let(parse_linecomment_end(text, pos + 2), LAMBDA end :
        IF end = 0 THEN Hang
        ELSE [tag |-> "Ok", text |-> SubSeq(text, pos + 2, end - 1), pos |-> end + 1])

RECURSIVE parse_blockcomment_end(_, _)
\* The loop of pretty.rs Parser::parse_blockcomment: the position of the
\* closing ";)", or 0 when the loop never ends because no ";)" follows.
parse_blockcomment_end(text, pos) ==
    IF is_next(text, pos, <<";", ")">>) THEN pos
    ELSE IF pos > Len(text) THEN 0
    ELSE parse_blockcomment_end(text, pos + 1)

\* pretty.rs Parser::parse_blockcomment.  `end` is taken as self.pos - 1 with
\* self.pos still at the closing ";)", so the slice input[start..end] stops
\* one character before the ";)"; when ";)" follows "(;" at once, end is
\* below start and the slice panics.
parse_blockcomment(text, pos) ==
    Let(parse_blockcomment_end(text, pos + 2), LAMBDA close :
        IF close = 0 THEN Hang
        ELSE IF close = pos + 2 THEN Panic
        ELSE [tag |-> "Ok", text |-> SubSeq(text, pos + 2, close - 2),
              pos |-> close + 2])

RECURSIVE pretty_parse_items(_, _, _)
RECURSIVE parse_parens(_, _)
\* pretty.rs Parser::parse_items: items up to the end of input or to a ")"
\* that is next at the top of the loop.
pretty_parse_items(text, pos, items) ==
    IF is_eof(text, pos) \/ is_next(text, pos, <<")">>)
    THEN [tag |-> "Ok", items |-> items, pos |-> pos]
    ELSE Let(pretty_eat_whitespace(text, pos), LAMBDA p :
         Let(IF is_next(text, p, <<"(", ";">>)
                 THEN Let(parse_blockcomment(text, p), LAMBDA r :
                      IF r.tag # "Ok" THEN r
                      ELSE [tag |-> "Ok", item |-> BlockComment(r.text), pos |-> r.pos])
             ELSE IF is_next(text, p, <<"(">>)
                 THEN Let(parse_parens(text, p), LAMBDA r :
                      IF r.tag # "Ok" THEN r
                      ELSE [tag |-> "Ok", item |-> Parens(r.items), pos |-> r.pos])
             ELSE IF is_next(text, p, <<";", ";">>)
                 THEN Let(parse_linecomment(text, p), LAMBDA r :
                      IF r.tag # "Ok" THEN r
                      ELSE [tag |-> "Ok", item |-> LineComment(r.text), pos |-> r.pos])
             ELSE IF is_next(text, p, <<"\"">>)
                 THEN Let(parse_string(text, p), LAMBDA r :
                      IF r.tag # "Ok" THEN r
                      ELSE [tag |-> "Ok", item |-> StringItem(r.text), pos |-> r.pos])
             ELSE Let(parse_literal(text, p), LAMBDA r :
                      [tag |-> "Ok", item |-> Literal(r.text), pos |-> r.pos]),
             LAMBDA r :
                 IF r.tag # "Ok" THEN r
                 ELSE pretty_parse_items(text, pretty_eat_whitespace(text, r.pos),
                                         Append(items, r.item))))

\* pretty.rs Parser::parse_parens
parse_parens(text, pos) ==
    Let(pretty_parse_items(text, pos + 1, <<>>), LAMBDA r :
        IF r.tag # "Ok" THEN r
        ELSE IF ~is_next(text, r.pos, <<")">>) THEN Err("UnexpectedToken")
        ELSE [tag |-> "Ok", items |-> r.items, pos |-> r.pos + 1])

\* pretty.rs Parser::parse: the items up to the end of input or to the first
\* ")" that closes no form; what follows that ")" is not looked at.
pretty_parse(text) == pretty_parse_items(text, 1, <<>>)


-----------------------------------------------------------------------------
(* pretty.rs: PrettyPrinter *)

INDENT == <<"\t">>

\* INDENT.repeat(n)
RECURSIVE indent_repeat(_)
indent_repeat(n) == IF n = 0 THEN <<>> ELSE INDENT \o indent_repeat(n - 1)

RECURSIVE trim_start(_)
\* str::trim_start
trim_start(s) ==
    IF s # <<>> /\ Head(s) \in WhitespaceChars THEN trim_start(Tail(s)) ELSE s

RECURSIVE trim_end(_)
\* str::trim_end
trim_end(s) ==
    IF s # <<>> /\ s[Len(s)] \in WhitespaceChars
    THEN trim_end(SubSeq(s, 1, Len(s) - 1)) ELSE s

\* str::trim
trim(s) == trim_end(trim_start(s))

RECURSIVE split_lines(_, _)
\* comment.split("\n").collect(): the lines of s, cur being the line begun.
split_lines(s, cur) ==
    IF s = <<>> THEN <<cur>>
    ELSE IF Head(s) = "\n" THEN <<cur>> \o split_lines(Tail(s), <<>>)
    ELSE split_lines(Tail(s), Append(cur, Head(s)))

\* PrettyPrinter::new.  The field overflow_checks tells whether the build panics on
\* integer overflow (debug profile) or wraps (release profile); panicked
\* records that a panic has unwound the printer, after which nothing more is
\* emitted.
PrettyPrinter(checks) ==
    [buffer |-> <<>>, newline_emitted |-> 0, panicked |-> FALSE,
     overflow_checks |-> checks]

\* A panic inside a printer method.
panic(self) == [self EXCEPT !.panicked = TRUE]

\* PrettyPrinter::emit
emit(self, v) ==
    IF self.panicked THEN self
    ELSE [self EXCEPT !.buffer = @ \o v, !.newline_emitted = 0]

RECURSIVE trim_end_newlines(_)
\* buffer.trim_end_matches("\n")
trim_end_newlines(s) ==
    IF s # <<>> /\ s[Len(s)] = "\n"
    THEN trim_end_newlines(SubSeq(s, 1, Len(s) - 1)) ELSE s

\* PrettyPrinter::undo_newlines: newline_emitted is left as it was.
undo_newlines(self) ==
    IF self.panicked THEN self
    ELSE [self EXCEPT !.buffer = trim_end_newlines(@)]

RECURSIVE emit_newlines(_, _)
\* PrettyPrinter::emit_newlines
emit_newlines(self, n) ==
    IF self.panicked \/ self.newline_emitted >= n THEN self
    ELSE emit_newlines([self EXCEPT !.buffer = Append(@, "\n"),
                                    !.newline_emitted = @ + 1], n)

\* PrettyPrinter::is_parens_with_ident
is_parens_with_ident(items, ident) ==
    items # <<>> /\ is_literal(items[1]) /\ items[1].text = Chars(ident)

\* PrettyPrinter::has_at_most_one_simple_attribute
has_at_most_one_simple_attribute(items) ==
    /\ Len(items) <= 2
    /\ Len(items) >= 1 => is_literal(items[1])
    /\ Len(items) >= 2 => is_literal(items[2])

SingleLineNodeTypes ==
    {Chars("param"), Chars("local"), Chars("export"), Chars("table"),
     Chars("memory"), Chars("import"), Chars("global")}

\* PrettyPrinter::is_single_line_node_type on items that are not empty; on
\* empty items the index items[0] panics (see pretty_print_parens).
is_single_line_node_type(items) ==
    is_literal(items[1]) /\ items[1].text \in SingleLineNodeTypes

\* PrettyPrinter::is_function_header_item
is_function_header_item(item) ==
    \/ /\ item.kind = "Parens"
       /\ \/ is_parens_with_ident(item.items, "param")
          \/ is_parens_with_ident(item.items, "result")
    \/ item.kind \in {"BlockComment", "LineComment"}

\* PrettyPrinter::is_function_first_line_item
is_function_first_line_item(item) ==
    \/ is_literal(item) /\ StartsWith(item.text, <<"$">>)
    \/ /\ item.kind = "Parens"
       /\ \/ is_parens_with_ident(item.items, "export")
          \/ is_parens_with_ident(item.items, "import")
    \/ item.kind \in {"BlockComment", "LineComment"}

\* PrettyPrinter::item_is_paren_with_ident on the item at position i, if any
item_is_paren_with_ident(items, i, name) ==
    /\ i <= Len(items)
    /\ items[i].kind = "Parens"
    /\ is_parens_with_ident(items[i].items, name)

IdLiteralTypes ==
    {"br", "br_if", "block", "loop", "if", "call", "local.set", "local.tee",
     "global.set"}

\* PrettyPrinter::is_parens_type_with_ident
is_parens_type_with_ident(items) ==
    \E ident \in IdLiteralTypes : is_parens_with_ident(items, ident)

RECURSIVE pretty_print_item_as_single_line(_, _, _)
RECURSIVE single_line_items(_, _, _, _)
\* The loop of PrettyPrinter::pretty_print_parens_as_single_line from the
\* item at position idx on.
single_line_items(self, items, idx, level) ==
    IF idx > Len(items) THEN self
    ELSE Let(pretty_print_item_as_single_line(self, items[idx], level + 1),
         LAMBDA p :
             single_line_items(IF idx < Len(items) THEN emit(p, <<" ">>) ELSE p,
                               items, idx + 1, level))

\* PrettyPrinter::pretty_print_parens_as_single_line
pretty_print_parens_as_single_line(self, items, level) ==
    emit(single_line_items(emit(self, <<"(">>), items, 1, level), <<")">>)

\* PrettyPrinter::pretty_print_item_as_single_line.  The LineComment arm
\* formats ");; {}\n": a closing parenthesis, the comment, a newline.
pretty_print_item_as_single_line(self, item, level) ==
    CASE item.kind = "Parens" ->
             pretty_print_parens_as_single_line(self, item.items, level + 1)
      [] item.kind = "Literal" -> emit(self, item.text)
      [] item.kind = "BlockComment" ->
             emit(self, Chars("(; ")
                        \o trim(Join(split_lines(item.text, <<>>), <<",">>))
                        \o Chars(" ;)"))
      [] item.kind = "LineComment" ->
             emit(self, Chars(");; ") \o item.text \o <<"\n">>)
      [] item.kind = "String" -> emit(self, <<"\"">> \o item.text \o <<"\"">>)

\* PrettyPrinter::pretty_print_line_comment: no newline is emitted after the
\* comment.
pretty_print_line_comment(self, comment, level) ==
    Let(IF comment # <<>> /\ Head(comment) \in WhitespaceChars
            THEN Tail(comment) ELSE comment,
        LAMBDA rest :
            IF trim(rest) # <<>>
            THEN emit(emit(emit(self, Chars(";;")), <<" ">>), rest)
            ELSE emit(self, Chars(";;")))

RECURSIVE drop_empty_head(_)
\* The first loop of PrettyPrinter::trim_empty_lines
drop_empty_head(lines) ==
    IF lines # <<>> /\ trim(Head(lines)) = <<>>
    THEN drop_empty_head(Tail(lines)) ELSE lines

RECURSIVE drop_empty_tail(_)
\* The second loop of PrettyPrinter::trim_empty_lines on lines that are not
\* empty.
drop_empty_tail(lines) ==
    IF lines # <<>> /\ trim(lines[Len(lines)]) = <<>>
    THEN drop_empty_tail(SubSeq(lines, 1, Len(lines) - 1)) ELSE lines

\* PrettyPrinter::trim_empty_lines.  When the first loop leaves no line,
\* lines.len() - 1 overflows: a build with overflow checks panics, a build
\* without them wraps, finds no line at that index and stops.
trim_empty_lines(lines, checks) ==
    Let(drop_empty_head(lines), LAMBDA kept :
        IF kept = <<>>
        THEN IF checks THEN Panic ELSE [tag |-> "Ok", lines |-> <<>>]
        ELSE [tag |-> "Ok", lines |-> drop_empty_tail(kept)])

RECURSIVE block_comment_lines(_, _, _, _)
\* The loop over the lines of PrettyPrinter::pretty_print_block_comment
block_comment_lines(self, lines, multiline, level) ==
    IF lines = <<>> THEN self
    ELSE Let(emit(IF multiline THEN emit(self, indent_repeat(level)) ELSE self,
                  trim(Head(lines))),
         LAMBDA p :
             block_comment_lines(IF multiline THEN emit(p, <<"\n">>) ELSE p,
                                 Tail(lines), multiline, level))

\* PrettyPrinter::pretty_print_block_comment
pretty_print_block_comment(self, comment, level) ==
    Let(trim_empty_lines(split_lines(comment, <<>>), self.overflow_checks),
    LAMBDA trimmed :
        IF self.panicked THEN self
        ELSE IF trimmed.tag = "Panic" THEN panic(self)
        ELSE Let(Len(trimmed.lines) > 1, LAMBDA multiline :
             Let(block_comment_lines(
                     IF multiline THEN emit(self, Chars("(;\n"))
                                  ELSE emit(self, Chars("(; ")),
                     trimmed.lines, multiline, level + 1),
             LAMBDA p :
                 emit(IF multiline THEN emit(p, indent_repeat(level))
                                   ELSE emit(p, <<" ">>),
                      Chars(";)")))))

\* PrettyPrinter::pretty_print_literal
pretty_print_literal(self, lit, level) == emit(self, lit)


RECURSIVE pretty_print_item(_, _, _)

RECURSIVE func_first_line(_, _, _, _)
\* The first loop of PrettyPrinter::pretty_print_func: the items kept on the
\* opening line.  The result holds the printer and the position of the next
\* item.
func_first_line(self, items, i, level) ==
    IF i <= Len(items) /\ is_function_first_line_item(items[i])
    THEN func_first_line(
             pretty_print_item_as_single_line(emit(self, <<" ">>), items[i], level),
             items, i + 1, level)
    ELSE [printer |-> self, next |-> i]

RECURSIVE func_header(_, _, _, _)
\* The loop over the function header items of pretty_print_func
func_header(self, items, i, level) ==
    IF i <= Len(items) /\ is_function_header_item(items[i])
    THEN func_header(
             emit_newlines(
                 pretty_print_item(emit(self, indent_repeat(level + 1)),
                                   items[i], level + 1), 1),
             items, i + 1, level)
    ELSE [printer |-> self, next |-> i]

RECURSIVE func_locals(_, _, _, _)
\* The loop over the locals of pretty_print_func
func_locals(self, items, i, level) ==
    IF item_is_paren_with_ident(items, i, "local")
    THEN func_locals(
             emit_newlines(
                 pretty_print_item(emit(self, indent_repeat(level + 1)),
                                   items[i], level + 1), 1),
             items, i + 1, level)
    ELSE [printer |-> self, next |-> i]

RECURSIVE func_body(_, _, _, _)
\* The loop over the body items of pretty_print_func
func_body(self, items, i, level) ==
    IF i > Len(items) THEN self
    ELSE func_body(
             emit_newlines(
                 pretty_print_item(emit(self, indent_repeat(level + 1)),
                                   items[i], level + 1), 1),
             items, i + 1, level)

\* PrettyPrinter::pretty_print_func
pretty_print_func(self, items, level) ==
    Let(func_first_line(emit(emit(self, <<"(">>), items[1].text), items, 2, level),
    LAMBDA first :
    Let(emit_newlines(first.printer, 1), LAMBDA p1 :
    Let(IF first.next <= Len(items) /\ is_function_header_item(items[first.next])
        THEN Let(func_header(p1, items, first.next, level), LAMBDA h :
                 [printer |-> emit_newlines(h.printer, 2), next |-> h.next])
        ELSE [printer |-> p1, next |-> first.next],
    LAMBDA header :
    Let(IF item_is_paren_with_ident(items, header.next, "local")
        THEN Let(func_locals(header.printer, items, header.next, level), LAMBDA l :
                 [printer |-> emit_newlines(l.printer, 2), next |-> l.next])
        ELSE header,
    LAMBDA locals :
        emit(undo_newlines(func_body(locals.printer, items, locals.next, level)),
             <<")">>)))))

RECURSIVE id_literal_items(_, _, _, _)
\* The loop of PrettyPrinter::pretty_print_parens_with_id_literal
id_literal_items(self, items, i, level) ==
    IF i > Len(items) THEN self
    ELSE id_literal_items(
             pretty_print_item(
                 emit(emit(self, <<"\n">>), indent_repeat(level + 1)),
                 items[i], level + 1),
             items, i + 1, level)

\* PrettyPrinter::pretty_print_parens_with_id_literal
pretty_print_parens_with_id_literal(self, items, level) ==
    Let(emit(emit(self, <<"(">>), items[1].text), LAMBDA p :
        emit(IF Len(items) >= 2 /\ is_literal(items[2])
             THEN id_literal_items(emit(emit(p, <<" ">>), items[2].text),
                                   items, 3, level)
             ELSE id_literal_items(p, items, 2, level),
             <<")">>))

RECURSIVE generic_items(_, _, _, _)
\* The loop of the last branch of PrettyPrinter::pretty_print_parens over
\* items.iter().skip(1): i is the position of the item, so the loop's idx is
\* i - 2 and items.get(idx) is the item before it.
generic_items(self, items, i, level) ==
    IF i > Len(items) THEN self
    ELSE Let(/\ items[i].kind = "Parens"
             /\ is_parens_with_ident(items[i].items, "func"),
         LAMBDA is_func :
         Let(items[i - 1].kind \in {"BlockComment", "LineComment"},
         LAMBDA previous_item_was_comment :
         Let(emit_newlines(self, 1), LAMBDA p1 :
         Let(IF is_func /\ i # 2 /\ ~previous_item_was_comment
             THEN emit_newlines(p1, 2) ELSE p1,
         LAMBDA p2 :
         Let(pretty_print_item(emit(p2, indent_repeat(level + 1)),
                               items[i], level + 1),
         LAMBDA p3 :
             generic_items(IF is_func THEN emit_newlines(p3, 2) ELSE p3,
                           items, i + 1, level))))))

\* PrettyPrinter::pretty_print_parens.  is_single_line_node_type is tested
\* first and indexes items[0], which panics on a form without items.
pretty_print_parens(self, items, level) ==
    IF self.panicked THEN self
    ELSE IF items = <<>> THEN panic(self)
    ELSE IF is_single_line_node_type(items) \/ has_at_most_one_simple_attribute(items)
         THEN pretty_print_parens_as_single_line(self, items, level)
    ELSE IF is_parens_with_ident(items, "func")
         THEN pretty_print_func(self, items, level)
    ELSE IF is_parens_type_with_ident(items)
         THEN pretty_print_parens_with_id_literal(self, items, level)
    ELSE emit(undo_newlines(
                  generic_items(pretty_print_item(emit(self, <<"(">>), items[1], 0),
                                items, 2, level)),
              <<")">>)

\* PrettyPrinter::pretty_print_item
pretty_print_item(self, item, level) ==
    CASE item.kind = "BlockComment" ->
             pretty_print_block_comment(self, item.text, level)
      [] item.kind = "LineComment" ->
             pretty_print_line_comment(self, item.text, level)
      [] item.kind = "Literal" -> pretty_print_literal(self, item.text, level)
      [] item.kind = "Parens" -> pretty_print_parens(self, item.items, level)
      [] item.kind = "String" -> pretty_print_item_as_single_line(self, item, level)

RECURSIVE print_items(_, _, _)
\* The loop of PrettyPrinter::pretty_print over the top-level items; the
\* separating newline is added to the buffer directly.
print_items(self, items, idx) ==
    IF idx > Len(items) THEN self
    ELSE Let(pretty_print_item(self, items[idx], 0), LAMBDA p :
             print_items(IF idx < Len(items) /\ ~p.panicked
                         THEN [p EXCEPT !.buffer = Append(@, "\n")] ELSE p,
                         items, idx + 1))

\* PrettyPrinter::pretty_print, on a build with or without overflow checks:
\* Ok with the text of the buffer, the parser's error, Hang when the
\* tokenizer loops without end, Panic when a method panics.
pretty_print(text, checks) ==
    Let(pretty_parse(text), LAMBDA r :
        IF r.tag # "Ok" THEN r
        ELSE Let(print_items(PrettyPrinter(checks), r.items, 1),
             LAMBDA p :
                 IF p.panicked THEN Panic
                 ELSE [tag |-> "Ok", text |-> p.buffer]))


-----------------------------------------------------------------------------
(* The formatter of main.rs: it reads a file, writes pretty_print of its     *)
(* text back to it, and is then run on the file once more.                   *)

\* Longest generated text handed to pretty_print, in characters.
MaxCodeLen == 4

\* The characters generated texts are drawn from: both parentheses, an
\* identifier character, a space, the comment character, the newline that
\* ends a line comment, and the string quote.
CodeChars == {"(", ")", "a", " ", ";", "\n", "\""}

RECURSIVE GeneratedCodes(_)
\* Every text of at most n characters of CodeChars.
GeneratedCodes(n) ==
    IF n = 0 THEN {<<>>}
    ELSE Let(GeneratedCodes(n - 1), LAMBDA shorter :
             shorter \cup {Append(t, c) : t \in {u \in shorter : Len(u) = n - 1},
                                          c \in CodeChars})

\* The inputs of the tests of pretty.rs without their indentation, and texts
\* with a comment as the last item of a form or of the file, with a comment
\* inside a single-line form, with a form without items and with a closing
\* parenthesis that closes no form.
SampleCodes ==
    {Chars("(a b c)"),
     Chars("(a (b c))"),
     Chars("(a b (c d e) (f g (h)))"),
     Chars("(module (func $name (param $a i32) (result i32) (local $tmp i32) (i32.add (local.get $a) (local.get $b))))"),
     Chars("(module (memory $mem 1) (func $f1 (i32.const 1)) (func $f2 (i32.const 2)))"),
     Chars("(module (func $main (export \"main\") (param $a i32) (local $tmp i32) (something $a b c)))"),
     Chars("(module\n;; comment 1\n ;; comment 2\n(func $lol (import \"env\" \"lol\") (param i32) (result i32)))"),
     Chars("(module\n(; comment 1\n comment 2 ;)\n(func))"),
     Chars("(module (func (; 0 ;) $name))"),
     Chars("(i32.load offset=(i32.const 4) (i32.const 4))"),
     Chars("(module (func $main (call $x (i32.const 4))))"),
     Chars("(if (i32.eqz (i32.const 0)) (i32.const 4))"),
     Chars("(import \"env\" \"lol\" (func $lol (param i32) (result i32)))"),
     Chars(";; 123\n;;\n;; 123\n"),
     Chars("(local.set $lol (i32.const 123))"),
     Chars("(data (i32.const 0) \"lol \\\" 123\")"),
     Chars("(block $done (loop $continue (br_if $done (i32.eqz (i32.load (i32.const 0)))) (br $continue)))"),
     Chars("(module\n\t(global $HEAP_BASE i32 (i32.const 8192))\n\t(;\n\t\tlol\n\t\tmore\n\t;)\n\t(data))"),
     Chars("(a b ;; c\n)"),
     Chars("(a b)\n;; c\n"),
     Chars("(a ;; c\n b c)"),
     Chars("(func $f ;; c\n (nop))"),
     Chars("(func $f (nop) ;; c\n)"),
     Chars("(param $a ;; c\n i32)"),
     Chars("(call $f (nop) ;; c\n)"),
     Chars("(a (; bc ;) d)"),
     Chars("(a (;bc;) d)"),
     Chars("(a (;b;) d)"),
     Chars("(a b) (; c ;)"),
     Chars("(a b (; c ;))"),
     Chars("(a b (;\n;) c)"),
     Chars("(a b) ) (c d)"),
     Chars("(a () b)"),
     Chars("(param ())"),
     Chars("(a b c"),
     Chars("(a \"b c)")}

\* The texts of the formatter runs.
Codes(n) == GeneratedCodes(n) \cup SampleCodes

\* formatter: pretty_print(&buf), the text written back to the file
Format ==
    /\ fphase = "source"
    /\ pretty_module' = pretty_print(code, overflow_checks)
    /\ fphase' = "formatted"
    /\ UNCHANGED <<code, pretty_again, overflow_checks, parseVars, linkVars,
                   passVars, sort_impl, utilVars>>

\* formatter on the file it has written: pretty_print of the first output
FormatAgain ==
    /\ fphase = "formatted"
    /\ pretty_module.tag = "Ok"
    /\ pretty_again' = pretty_print(pretty_module.text, overflow_checks)
    /\ fphase' = "twice"
    /\ UNCHANGED <<code, pretty_module, overflow_checks, parseVars, linkVars,
                   passVars, sort_impl, utilVars>>

InitPretty ==
    /\ code \in Codes(MaxCodeLen)
    /\ overflow_checks \in BOOLEAN
    /\ pretty_module = NoResult /\ pretty_again = NoResult
    /\ fphase = "source"
    /\ ParseIdle /\ LinkIdle /\ PassIdle /\ UtilIdle
    /\ sort_impl = "insertion_sort_shift_left"

NextPretty == Format \/ FormatAgain

SpecPretty == InitPretty /\ [][NextPretty]_vars


-----------------------------------------------------------------------------
(* Claims about the pretty-printer *)

\* C21: formatting a formatted text changes nothing.  Whenever pretty_print
\* has succeeded on a text, pretty_print on its output ends, succeeds and
\* returns that output character for character; the texts of the runs hold
\* line comments (also as the last item of a form or of the file) and block
\* comments.
FormatterFixedPoint ==
    fphase = "twice" => pretty_again = pretty_module


RECURSIVE TrimmedLines(_)
\* The lines of a block comment without their surrounding whitespace.
TrimmedLines(lines) ==
    IF lines = <<>> THEN <<>>
    ELSE <<trim(Head(lines))>> \o TrimmedLines(Tail(lines))

\* The text of a comment up to surrounding whitespace: for a line comment
\* the trimmed text, for a block comment its trimmed lines without the empty
\* lines at either end.
CommentText(item) ==
    IF item.kind = "LineComment" THEN <<trim(item.text)>>
    ELSE drop_empty_tail(drop_empty_head(
             TrimmedLines(split_lines(item.text, <<>>))))

RECURSIVE TokensOf(_)
\* The nested sequence of forms, identifiers, string literals and comments
\* of tokenized items, comments up to surrounding whitespace.  The empty
\* literal the tokenizer makes of whitespace before a ")" or before the end
\* of input is no token.
TokensOf(items) ==
    IF items = <<>> THEN <<>>
    ELSE Let(Head(items), LAMBDA item :
         (CASE item.kind = "Parens" -> <<Parens(TokensOf(item.items))>>
            [] item.kind \in {"LineComment", "BlockComment"} ->
                   <<[kind |-> item.kind, text |-> CommentText(item)]>>
            [] item.kind = "Literal" /\ item.text = <<>> -> <<>>
            [] OTHER -> <<item>>)
         \o TokensOf(Tail(items)))

\* The characters of a text that are no whitespace.
Visible(text) == {text[i] : i \in 1..Len(text)} \ WhitespaceChars

\* How often the character c stands in text.
CountOf(text, c) == Len(SelectSeq(text, LAMBDA d : d = c))

\* The formatter has written a text.
Formatted == fphase \in {"formatted", "twice"} /\ pretty_module.tag = "Ok"

\* Tokenizing the output gives the tokens of the input.
SameTokens ==
    Let(pretty_parse(pretty_module.text), LAMBDA out :
        /\ out.tag = "Ok"
        /\ TokensOf(out.items) = TokensOf(pretty_parse(code).items))

\* No parenthesis is added or dropped.
SameParentheses ==
    /\ CountOf(pretty_module.text, "(") = CountOf(code, "(")
    /\ CountOf(pretty_module.text, ")") = CountOf(code, ")")

\* No character of the input that is no whitespace is lost: the output holds
\* each of them at least as often as the input.
NothingLost ==
    \A c \in Visible(code) : CountOf(pretty_module.text, c) >= CountOf(code, c)

\* C29: pretty_print changes layout only.  Whenever it succeeds, its own
\* tokenizer reads from the output the nested sequence of forms,
\* identifiers, string literals and comments it read from the input
\* (comment text up to surrounding whitespace), no parenthesis is added or
\* dropped (so none moves into a line comment), and no character of a
\* comment or of the input after a closing parenthesis that closes no form
\* is lost.
PrettyPrintChangesLayoutOnly ==
    Formatted => SameTokens /\ SameParentheses /\ NothingLost

=============================================================================
